---- MODULE Spec2Model ----
(***************************************************************************)
(* xray-health-exporter: the tunnel manager (Initialize / Reload /         *)
(* StopAll / HealthHandler), the probe loop (checker.Run / checker.Check), *)
(* the metric registry (metrics.CleanupRemoved), the config loader         *)
(* (config.Load / Config.Validate), the VLESS URL parser and the debounce  *)
(* timer of the config watcher, as one state machine.                      *)
(*                                                                         *)
(* The goroutines communicate through tm.instances (under tm.mu), the      *)
(* instances' contexts and up flags, and the metric vectors.  A step of a  *)
(* writer is one access to tm.instances together with the work on          *)
(* instances that are not in the list at that time (stopTunnels on the     *)
(* list just taken, the build loop on instances not yet published).        *)
(***************************************************************************)
EXTENDS Integers, Sequences, FiniteSets, TLC

(* ------------------------------------------------------------------ *)
(* Bounds of the model                                                 *)
(* ------------------------------------------------------------------ *)

\* Reload goroutines the debounce timer can start in one run.
MaxReloads == 2

\* Check calls that return in one run, all probe loops together (a Check
\* beyond them stays in flight).
MaxChecks == 2

\* The same bound for the runs in which the config file does not change.
MaxProbes == 2

\* Changes the file system makes in the config directory in one run.
MaxFsOps == 3

\* Events that wait in watcher.Events (a change made beyond them waits).
MaxQueue == 4

(* ------------------------------------------------------------------ *)
(* Program constants                                                   *)
(* ------------------------------------------------------------------ *)

DefaultSocksPort == 1080

DefaultCheckURL == "https://www.google.com"

\* DefaultCheckInterval.String() and DefaultTimeout.String()
DefaultCheckInterval == "30s"

DefaultTimeout == "30s"

(* ------------------------------------------------------------------ *)
(* Strings the configuration is made of                                *)
(* ------------------------------------------------------------------ *)

\* A URL text, by its components.  The text "" is the record whose
\* components are all empty; a text that starts with "vless://" has
\* scheme "vless".
EmptyURL ==
  [scheme |-> "", uuid |-> "", host |-> "", port |-> "",
   type |-> "", security |-> "", pbk |-> "", sni |-> "",
   fp |-> "", sid |-> "", spx |-> ""]

VlessURL(uuid, host, port, security, sni) ==
  [scheme |-> "vless", uuid |-> uuid, host |-> host, port |-> port,
   type |-> "tcp", security |-> security, pbk |-> "", sni |-> sni,
   fp |-> "", sid |-> "", spx |-> ""]

\* strings.HasPrefix(s, "vless://")
HasVlessPrefix(u) == u.scheme = "vless"

\* The decimal digit strings the model uses as ports, with their values.
DigitStrings == {"443", "8443", "0", "70000"}

DigitValue(s) ==
  CASE s = "443" -> 443
    [] s = "8443" -> 8443
    [] s = "0" -> 0
    [] s = "70000" -> 70000

\* net/url.Parse: the port after the host's colon must be empty or digits
\* (validOptionalPort); otherwise Parse fails.
URLParseOK(u) == u.port = "" \/ u.port \in DigitStrings

\* strconv.Atoi(u.Port()): fails on the empty string.
AtoiOK(s) == s \in DigitStrings

\* time.ParseDuration, in milliseconds.  "", a bare number and a word do
\* not parse; zero and negative durations do.
ParseDuration(s) ==
  CASE s = "30s" -> [ok |-> TRUE, ms |-> 30000]
    [] s = "5s" -> [ok |-> TRUE, ms |-> 5000]
    [] s = "500ms" -> [ok |-> TRUE, ms |-> 500]
    [] s = "0s" -> [ok |-> TRUE, ms |-> 0]
    [] s = "-5s" -> [ok |-> TRUE, ms |-> 0 - 5000]
    [] OTHER -> [ok |-> FALSE, ms |-> 0]

(* ------------------------------------------------------------------ *)
(* config.Load and Config.Validate                                     *)
(* ------------------------------------------------------------------ *)

NoDefaults == [check_url |-> "", check_interval |-> "", check_timeout |-> ""]

Tunnel(name, url) ==
  [name |-> name, url |-> url,
   check_url |-> "", check_interval |-> "", check_timeout |-> ""]

\* A config file: whether os.ReadFile and yaml.Unmarshal succeed on it and,
\* when they do, the Config that Unmarshal fills in (0 and "" for what the
\* YAML leaves out).
ConfigFile(tunnels) ==
  [readable |-> TRUE, yaml_ok |-> TRUE, defaults |-> NoDefaults,
   socks_base_port |-> 0, tunnels |-> tunnels]

ResolveDefaultsFirst(own, dflt, builtin) ==
  IF dflt # "" THEN dflt ELSE IF own # "" THEN own ELSE builtin

\* The per-tunnel resolution of Load: own value, else defaults, else built-in.
Resolve(own, dflt, builtin) ==
  IF own # "" THEN own ELSE IF dflt # "" THEN dflt ELSE builtin

LoadTunnel(t, d) ==
  [name |-> t.name, url |-> t.url,
   check_url |-> Resolve(t.check_url, d.check_url, DefaultCheckURL),
   check_interval |->
     Resolve(t.check_interval, d.check_interval, DefaultCheckInterval),
   check_timeout |->
     Resolve(t.check_timeout, d.check_timeout, DefaultTimeout)]

\* Load(configPath): [ok, cfg].
Load(f) ==
  IF \/ ~f.readable
     \/ ~f.yaml_ok
     \/ Len(f.tunnels) = 0
     \/ \E i \in 1..Len(f.tunnels) : f.tunnels[i].url = EmptyURL
  THEN [ok |-> FALSE,
        cfg |-> [defaults |-> NoDefaults, socks_base_port |-> 0,
                 tunnels |-> <<>>]]
  ELSE [ok |-> TRUE,
        cfg |-> [defaults |-> f.defaults,
                 socks_base_port |->
                   IF f.socks_base_port = 0 THEN DefaultSocksPort
                   ELSE f.socks_base_port,
                 tunnels |->
                   [i \in 1..Len(f.tunnels) |->
                      LoadTunnel(f.tunnels[i], f.defaults)]]]

\* The checks Validate makes on one tunnel.
ValidateTunnelMissingPortCheck(t) ==
  /\ HasVlessPrefix(t.url)
  /\ URLParseOK(t.url)
  /\ ParseDuration(t.check_interval).ok
  /\ ParseDuration(t.check_timeout).ok

ValidateTunnelNoTimeoutCheck(t) ==
  /\ HasVlessPrefix(t.url)
  /\ URLParseOK(t.url)
  /\ AtoiOK(t.url.port)
  /\ ParseDuration(t.check_interval).ok

ValidateTunnel(t) ==
  /\ HasVlessPrefix(t.url)
  /\ URLParseOK(t.url)
  /\ AtoiOK(t.url.port)
  /\ ParseDuration(t.check_interval).ok
  /\ ParseDuration(t.check_timeout).ok

\* (c *Config) Validate() = nil
Validate(c) == \A i \in 1..Len(c.tunnels) : ValidateTunnel(c.tunnels[i])

(* ------------------------------------------------------------------ *)
(* ParseVLESSURL, TunnelInstance.LabelSet                              *)
(* ------------------------------------------------------------------ *)

\* ParseVLESSURL(vlessURL) = (config, nil)
ParseVLESSURLOK(u) == HasVlessPrefix(u) /\ URLParseOK(u) /\ AtoiOK(u.port)

ParseVLESSURL(u) ==
  [UUID |-> u.uuid, Address |-> u.host, Port |-> DigitValue(u.port),
   Security |-> u.security, PBK |-> u.pbk, SNI |-> u.sni, FP |-> u.fp,
   SID |-> u.sid, SPX |-> u.spx, Type |-> u.type]

\* fmt.Sprintf("%s:%d", Address, Port)
ServerLabel(v) == v.Address \o ":" \o ToString(v.Port)

\* The side-effect-free steps of InitInstance succeed on tunnel t.
InitInstanceParses(t) ==
  /\ ParseVLESSURLOK(t.url)
  /\ ParseDuration(t.check_interval).ok
  /\ ParseDuration(t.check_timeout).ok

\* The name InitInstance gives the instance.
InstanceName(t) ==
  IF t.name = "" THEN ServerLabel(ParseVLESSURL(t.url)) ELSE t.name

\* (ti *TunnelInstance) LabelSet(), from the tunnel the instance was built of.
LabelSet(t) ==
  [Name |-> InstanceName(t),
   Server |-> ServerLabel(ParseVLESSURL(t.url)),
   Security |-> ParseVLESSURL(t.url).Security,
   SNI |-> ParseVLESSURL(t.url).SNI]

(* ------------------------------------------------------------------ *)
(* The config files the file system can hold                           *)
(* ------------------------------------------------------------------ *)

TunA == Tunnel("A", VlessURL("uuid-a", "a.example.com", "443", "reality", "sni-a"))

TunB == Tunnel("", VlessURL("uuid-b", "b.example.com", "8443", "tls", "sni-b"))

FileAB == ConfigFile(<<TunA, TunB>>)

FileB == [ConfigFile(<<TunB>>) EXCEPT !.socks_base_port = DefaultSocksPort + 1000]

FileUnreadable == [ConfigFile(<<TunA>>) EXCEPT !.readable = FALSE]

FileMalformed == [ConfigFile(<<TunA>>) EXCEPT !.yaml_ok = FALSE]

FileNoTunnels == ConfigFile(<<>>)

FileNoURL == ConfigFile(<<TunB, Tunnel("A", EmptyURL)>>)

FileBadScheme ==
  ConfigFile(<<Tunnel("A", [TunA.url EXCEPT !.scheme = "http"])>>)

FileBadPort ==
  ConfigFile(<<TunB, Tunnel("A", [TunA.url EXCEPT !.port = "invalid"])>>)

FileNoPort == ConfigFile(<<Tunnel("A", [TunA.url EXCEPT !.port = ""])>>)

FileBadInterval == ConfigFile(<<[TunA EXCEPT !.check_interval = "abc"]>>)

FileBadTimeout ==
  [ConfigFile(<<TunA>>) EXCEPT !.defaults.check_timeout = "30"]

GoodFiles == {FileAB, FileB}

BadFiles ==
  {FileUnreadable, FileMalformed, FileNoTunnels, FileNoURL, FileBadScheme,
   FileBadPort, FileNoPort, FileBadInterval, FileBadTimeout}

Files == GoodFiles \cup BadFiles

\* The Config a caller of Initialize can hold: what Load returned (main does
\* not Validate at startup), or a Config built in place with no tunnels.
EmptyConfig ==
  [defaults |-> NoDefaults, socks_base_port |-> 0, tunnels |-> <<>>]

StartConfigs == {Load(f).cfg : f \in {g \in Files : Load(g).ok}} \cup {EmptyConfig}

\* A file that lists one tunnel twice, and the start configs with it.
FileDup == ConfigFile(<<TunB, TunB>>)

ProbeConfigs == StartConfigs \cup {Load(FileDup).cfg}

Max(S) == CHOOSE x \in S : \A y \in S : y <= x

MaxTunnels == Max({Len(f.tunnels) : f \in Files})

Range(s) == {s[i] : i \in 1..Len(s)}

(* ------------------------------------------------------------------ *)
(* State                                                               *)
(* ------------------------------------------------------------------ *)

\* An Initialize call is named by its caller: 0 is the call main makes at
\* startup, r > 0 the call Reload r makes.  The i-th instance it builds is
\* <<caller, i>>.
Reloads == 1..MaxReloads

Callers == 0..MaxReloads

InstIds == Callers \X (1..MaxTunnels)

VARIABLES
  mainpc,     \* where main is: "start", "init", "serving", "failed"
              \* (os.Exit(1)), "exited" (main returned)
  instances,  \* tm.instances: the active list, a sequence of InstIds
  ti,         \* the TunnelInstance objects, by InstId
  m,          \* the metric vectors of metrics.Metrics
  ini,        \* the Initialize calls, by caller: pc, cfg, the local slice
  rl,         \* the Reload calls: pc and local variables
  checks,     \* Check calls that have returned, all probe loops together
  h,          \* the /health request in progress: pc, snapshot, loop index
  w,          \* WatchConfigFile: its loop, the config file, the watches,
              \* the rewatch goroutines, the debounce timers
  d,          \* a socks.Dialer.DialContext call: where it is, its
              \* connection to the proxy, what it wrote and read
  call        \* a call of config.Load or ParseVLESSURL on its own: the
              \* function, its argument, what it returned

vars == <<mainpc, instances, ti, m, ini, rl, checks, h, w, d, call>>

\* The process is alive: when main has returned (or called os.Exit) every
\* goroutine is gone.
Running == mainpc \notin {"failed", "exited"}

NoLabel == [Name |-> "", Server |-> "", Security |-> "", SNI |-> ""]

\* No Check of the instance has returned yet.
NoOutcome == [kind |-> "none", status |-> 0]

\* A TunnelInstance that InitInstance has not built (yet).  Besides the
\* fields of the Go struct: its context, where its Run goroutine is, the
\* probes Run has started, and what its last Check met (kept in the runs
\* that look at single probes).
NoInstance ==
  [built |-> FALSE, label |-> NoLabel, SocksPort |-> 0,
   XrayInstance |-> "nil", CancelFunc |-> FALSE, ctx |-> "none",
   Up |-> FALSE, run |-> "none", fired |-> 0, last |-> NoOutcome]

\* The instance InitInstance(t, socksPort) returns: provider started, no
\* cancel handle yet, Up false.
NewInstance(t, socksPort) ==
  [built |-> TRUE, label |-> LabelSet(t), SocksPort |-> socksPort,
   XrayInstance |-> "open", CancelFunc |-> FALSE, ctx |-> "none",
   Up |-> FALSE, run |-> "none", fired |-> 0, last |-> NoOutcome]

NoMetrics ==
  [TunnelUp |-> <<>>, TunnelLatency |-> <<>>, TunnelLastSuccess |-> <<>>,
   TunnelHTTPStatus |-> <<>>, TunnelCheckTotal |-> <<>>,
   TunnelInitErrors |-> 0]

\* WatchConfigFile has not been called: the config file is there (main has
\* loaded it), nothing is watched.  Besides the locals of the function:
\* whether the file name exists, the file-level watches the fsnotify
\* watcher holds, the rewatch goroutines at their ticker (pollWait) and
\* in addFileWatch (pollAdd), the debounce timers that have not fired, the
\* tm.Reload calls made, the changes the file system has made, and how
\* often among them the file was created anew.
NoWatcher ==
  [pc |-> "start", ctx |-> "live", exists |-> TRUE,
   fileWatchActive |-> FALSE, registered |-> 0,
   pollWait |-> 0, pollAdd |-> 0,
   events |-> <<>>, armed |-> 0, reloads |-> 0, fsops |-> 0,
   created |-> 0]

\* DialContext has not been called.  conn is the TCP connection to the
\* proxy ("none", "open", "closed"), sent the messages written to it, req
\* the bytes of the CONNECT request among them, method and resp the
\* replies read, drained the bytes read after the
\* 4-byte reply header, result and err what the call returns.
NoDial ==
  [pc |-> "idle", addr |-> "", deadline |-> FALSE, conn |-> "none",
   sent |-> <<>>, req |-> <<>>, method |-> <<>>, resp |-> <<>>,
   lenByte |-> 0,
   drained |-> 0, result |-> "none", err |-> [kind |-> "none", code |-> 0]]

\* No function has been called on its own.
NoCall == [fn |-> "none", arg |-> <<>>, ret |-> <<>>]

Init ==
  /\ mainpc = "start"
  /\ instances = <<>>
  /\ ti = [id \in InstIds |-> NoInstance]
  /\ m = NoMetrics
  /\ ini = [c \in Callers |->
              [pc |-> "idle", cfg |-> EmptyConfig, built |-> <<>>]]
  /\ rl = [r \in Reloads |->
             [pc |-> "idle", cfg |-> EmptyConfig, oldInstances |-> <<>>,
              oldLabelSets |-> <<>>, newLabelSets |-> <<>>, err |-> "none"]]
  /\ checks = 0
  /\ h = [pc |-> "idle", snap |-> <<>>, idx |-> 1, quiet |-> TRUE]
  /\ w = NoWatcher
  /\ d = NoDial
  /\ call = NoCall

(* ------------------------------------------------------------------ *)
(* Metric vectors: a vector is a function from the label values that   *)
(* have a series to the series' value                                  *)
(* ------------------------------------------------------------------ *)

\* vec.With(labels).Set(v)
SetSeries(vec, l, v) ==
  [x \in (DOMAIN vec) \cup {l} |-> IF x = l THEN v ELSE vec[x]]

\* vec.With(labels).Inc(): With creates the series at 0
IncSeries(vec, l) ==
  [x \in (DOMAIN vec) \cup {l} |->
     IF x = l THEN (IF l \in DOMAIN vec THEN vec[l] + 1 ELSE 1) ELSE vec[x]]

\* vec.DeleteLabelValues(l...)
DeleteSeries(vec, l) == [x \in (DOMAIN vec) \ {l} |-> vec[x]]

\* CheckLabels(name, server, security, sni, result)
CheckLabels(l, result) == <<l, result>>

\* Label set l has a series in some per-tunnel family.
HasSeries(mm, l) ==
  \/ l \in DOMAIN mm.TunnelUp
  \/ l \in DOMAIN mm.TunnelLatency
  \/ l \in DOMAIN mm.TunnelLastSuccess
  \/ l \in DOMAIN mm.TunnelHTTPStatus
  \/ CheckLabels(l, "success") \in DOMAIN mm.TunnelCheckTotal
  \/ CheckLabels(l, "failure") \in DOMAIN mm.TunnelCheckTotal

\* (ls LabelSet) key()
Key(ls) ==
  ls.Name \o "|" \o ls.Server \o "|" \o ls.Security \o "|" \o ls.SNI

\* The six deletes CleanupRemoved makes for one label set.
DeleteAll(mm, ls) ==
  [mm EXCEPT
     !.TunnelUp = DeleteSeries(@, ls),
     !.TunnelLatency = DeleteSeries(@, ls),
     !.TunnelLastSuccess = DeleteSeries(@, ls),
     !.TunnelHTTPStatus = DeleteSeries(@, ls),
     !.TunnelCheckTotal =
       DeleteSeries(DeleteSeries(@, CheckLabels(ls, "success")),
                    CheckLabels(ls, "failure"))]

\* The label sets CleanupRemoved(old, new) deletes.
RemovedLabelSets(old, new) ==
  IF Len(old) = 0 THEN {}
  ELSE {ls \in Range(old) : Key(ls) \notin {Key(n) : n \in Range(new)}}

RECURSIVE DeleteEach(_, _)
DeleteEach(mm, S) ==
  IF S = {} THEN mm
  ELSE LET ls == CHOOSE x \in S : TRUE
       IN DeleteEach(DeleteAll(mm, ls), S \ {ls})

\* (m *Metrics) CleanupRemoved(old, new)
CleanupRemoved(mm, old, new) == DeleteEach(mm, RemovedLabelSets(old, new))

(* ------------------------------------------------------------------ *)
(* checker.Check and checker.Run                                       *)
(* ------------------------------------------------------------------ *)

SocksUnreachable == [kind |-> "socks_unreachable", status |-> 0]

RequestError == [kind |-> "request_error", status |-> 0]

Response(status) == [kind |-> "response", status |-> status]

\* The check URL answers a redirect status with a Location header, and the
\* redirect target answers status target.
Redirect(status, target) ==
  [kind |-> "redirect", status |-> status, target |-> target]

\* What one probe can meet.
Outcomes == {SocksUnreachable, RequestError, Response(200), Response(404)}

\* The same with every status of the checker's tests, and with redirects
\* that name a target.
ProbeOutcomes ==
  Outcomes
    \cup {Response(s) : s \in {301, 302, 307, 403, 500, 503}}
    \cup {Redirect(s, t) : s \in {301, 302, 307}, t \in {200, 404}}

\* ti.HTTPClient.Get(ti.CheckURL): the client InitInstance builds sets no
\* CheckRedirect, so net/http's default policy follows a redirect that
\* names a Location, and Get returns the target's response.
ClientGet(o) == IF o.kind = "redirect" THEN Response(o.target) ELSE o

\* The HTTP requests the client sends in a Check that meets o.
Requests(o) ==
  CASE o.kind = "redirect" -> 2
    [] o.kind \in {"response", "request_error"} -> 1
    [] OTHER -> 0

StatusUpOnly200(status) == status = 200

\* The statuses Check accepts.
StatusUp(status) == status \in {200, 301, 302, 307}

\* Result.Up of a Check that met outcome o.
CheckUp(o) == o.kind = "response" /\ StatusUp(o.status)

CheckMetricsZeroStatus(mm, l, o) ==
  IF o.kind # "response" \/ ~StatusUp(o.status)
  THEN [mm EXCEPT
          !.TunnelHTTPStatus = SetSeries(@, l, o.status),
          !.TunnelUp = SetSeries(@, l, 0),
          !.TunnelCheckTotal = IncSeries(@, CheckLabels(l, "failure"))]
  ELSE [mm EXCEPT
          !.TunnelHTTPStatus = SetSeries(@, l, o.status),
          !.TunnelUp = SetSeries(@, l, 1),
          !.TunnelLatency = SetSeries(@, l, 1),
          !.TunnelLastSuccess = SetSeries(@, l, 1),
          !.TunnelCheckTotal = IncSeries(@, CheckLabels(l, "success"))]

CheckMetricsNoSuccessCount(mm, l, o) ==
  IF o.kind # "response"
  THEN [mm EXCEPT
          !.TunnelUp = SetSeries(@, l, 0),
          !.TunnelCheckTotal = IncSeries(@, CheckLabels(l, "failure"))]
  ELSE IF ~StatusUp(o.status)
  THEN [mm EXCEPT
          !.TunnelHTTPStatus = SetSeries(@, l, o.status),
          !.TunnelUp = SetSeries(@, l, 0),
          !.TunnelCheckTotal = IncSeries(@, CheckLabels(l, "failure"))]
  ELSE [mm EXCEPT
          !.TunnelHTTPStatus = SetSeries(@, l, o.status),
          !.TunnelUp = SetSeries(@, l, 1),
          !.TunnelLatency = SetSeries(@, l, 1),
          !.TunnelLastSuccess = SetSeries(@, l, 1)]

\* The metric writes of a Check on label set l that met outcome o.
CheckMetrics(mm, l, o) ==
  IF o.kind # "response"
  THEN [mm EXCEPT
          !.TunnelUp = SetSeries(@, l, 0),
          !.TunnelCheckTotal = IncSeries(@, CheckLabels(l, "failure"))]
  ELSE IF ~StatusUp(o.status)
  THEN [mm EXCEPT
          !.TunnelHTTPStatus = SetSeries(@, l, o.status),
          !.TunnelUp = SetSeries(@, l, 0),
          !.TunnelCheckTotal = IncSeries(@, CheckLabels(l, "failure"))]
  ELSE [mm EXCEPT
          !.TunnelHTTPStatus = SetSeries(@, l, o.status),
          !.TunnelUp = SetSeries(@, l, 1),
          !.TunnelLatency = SetSeries(@, l, 1),
          !.TunnelLastSuccess = SetSeries(@, l, 1),
          !.TunnelCheckTotal = IncSeries(@, CheckLabels(l, "success"))]

\* The /health request in progress stops being undisturbed when the list or
\* an up flag changes under it.
Disturbed(hh) == IF hh.pc = "idle" THEN hh ELSE [hh EXCEPT !.quiet = FALSE]

\* The Check of instance id returns: it has met outcome o, written the
\* metrics and stored Up.  Run is then at its select.  noted is what the
\* run keeps of o for the properties of single probes.
CheckReturns(id, o, noted) ==
  /\ Running
  /\ ti[id].run = "check"
  /\ checks' = checks + 1
  /\ m' = CheckMetrics(m, ti[id].label, ClientGet(o))
  /\ ti' = [ti EXCEPT ![id].run = "select",
                      ![id].Up = CheckUp(ClientGet(o)),
                      ![id].last = noted]
  /\ h' = IF ti[id].Up # CheckUp(ClientGet(o)) THEN Disturbed(h) ELSE h
  /\ UNCHANGED <<mainpc, instances, ini, rl, w, d, call>>

TickDuringCheck(id) ==
  /\ Running
  /\ ti[id].run \in {"select", "check"}
  /\ ti' = [ti EXCEPT ![id].run = "check", ![id].fired = @ + 1]
  /\ UNCHANGED <<mainpc, instances, m, ini, rl, checks, h, w, d, call>>

\* Run's select takes the ticker case and calls Check (Go picks among the
\* ready cases at random, so also when ctx is done).
Tick(id) ==
  /\ Running
  /\ ti[id].run = "select"
  /\ ti' = [ti EXCEPT ![id].run = "check", ![id].fired = @ + 1]
  /\ UNCHANGED <<mainpc, instances, m, ini, rl, checks, h, w, d, call>>

CheckEnd(id) ==
  /\ checks < MaxChecks
  /\ \E o \in Outcomes : CheckReturns(id, o, NoOutcome)

RunTick(id) ==
  /\ checks < MaxChecks
  /\ Tick(id)

\* The same steps when the probes are what is looked at.
ProbeEnd(id) ==
  /\ checks < MaxProbes
  /\ \E o \in ProbeOutcomes : CheckReturns(id, o, o)

ProbeTick(id) ==
  /\ checks < MaxProbes
  /\ Tick(id)

\* Run's select takes <-ctx.Done() and Run returns.
RunReturn(id) ==
  /\ Running
  /\ ti[id].run = "select"
  /\ ti[id].ctx = "done"
  /\ ti' = [ti EXCEPT ![id].run = "returned"]
  /\ UNCHANGED <<mainpc, instances, m, ini, rl, checks, h, w, d, call>>

\* Check, its writes one after the other: the writes up to and including
\* m.TunnelUp.With(baseLabels).Set, which every path of Check makes first.
CheckFirstWrites(mm, l, o) ==
  IF o.kind # "response"
  THEN [mm EXCEPT !.TunnelUp = SetSeries(@, l, 0)]
  ELSE [mm EXCEPT
          !.TunnelHTTPStatus = SetSeries(@, l, o.status),
          !.TunnelUp = SetSeries(@, l, IF StatusUp(o.status) THEN 1 ELSE 0)]

\* The writes of Check after TunnelUp.Set, up to its return.
CheckLastWrites(mm, l, o) ==
  IF CheckUp(o)
  THEN [mm EXCEPT
          !.TunnelLatency = SetSeries(@, l, 1),
          !.TunnelLastSuccess = SetSeries(@, l, 1),
          !.TunnelCheckTotal = IncSeries(@, CheckLabels(l, "success"))]
  ELSE [mm EXCEPT
          !.TunnelCheckTotal = IncSeries(@, CheckLabels(l, "failure"))]

\* The Check of instance id has met an outcome and sets xray_tunnel_up.
CheckSetsUp(id) ==
  /\ Running
  /\ checks < MaxChecks
  /\ ti[id].run = "check"
  /\ \E o \in Outcomes :
       /\ m' = CheckFirstWrites(m, ti[id].label, ClientGet(o))
       /\ ti' = [ti EXCEPT ![id].run = "recorded", ![id].last = o]
  /\ UNCHANGED <<mainpc, instances, ini, rl, checks, h, w, d, call>>

\* The Check that has set xray_tunnel_up makes its other writes, stores
\* Up and returns.
CheckFinishes(id) ==
  /\ Running
  /\ ti[id].run = "recorded"
  /\ checks' = checks + 1
  /\ m' = CheckLastWrites(m, ti[id].label, ClientGet(ti[id].last))
  /\ ti' = [ti EXCEPT ![id].run = "select",
                      ![id].Up = CheckUp(ClientGet(ti[id].last))]
  /\ h' = IF ti[id].Up # CheckUp(ClientGet(ti[id].last))
          THEN Disturbed(h) ELSE h
  /\ UNCHANGED <<mainpc, instances, ini, rl, w, d, call>>

(* ------------------------------------------------------------------ *)
(* TunnelManager.Initialize                                            *)
(* ------------------------------------------------------------------ *)

SocksPortOfBase(cfg, i) == cfg.socks_base_port

\* socksPort of the tunnel at config position i (1-based here, 0-based in Go)
SocksPortOf(cfg, i) == cfg.socks_base_port + (i - 1)

\* The label sets of a list of instances.
LabelSetsOf(list) == [i \in 1..Len(list) |-> ti[list[i]].label]

\* The local slice after k turns of caller c's build loop.
BuiltList(c, k) == [i \in 1..k |-> <<c, i>>]

BuildFailsLeavesOpen(tis, c, cfg, k) ==
  [id \in InstIds |->
     IF id[1] = c /\ id[2] <= k
     THEN NewInstance(cfg.tunnels[id[2]], SocksPortOf(cfg, id[2]))
     ELSE tis[id]]

\* The build loop fails in turn k + 1: InitInstance counts the error, and
\* each of the k instances already built has its provider closed (their
\* CancelFunc is still nil, no checker has been started).
BuildFails(tis, c, cfg, k) ==
  [id \in InstIds |->
     IF id[1] = c /\ id[2] <= k
     THEN [NewInstance(cfg.tunnels[id[2]], SocksPortOf(cfg, id[2]))
             EXCEPT !.XrayInstance = "closed"]
     ELSE tis[id]]

BuildSpawnsNoCancel(tis, c, cfg, n) ==
  [id \in InstIds |->
     IF id[1] = c /\ id[2] <= n
     THEN [NewInstance(cfg.tunnels[id[2]], SocksPortOf(cfg, id[2]))
             EXCEPT !.ctx = "live", !.run = "check", !.fired = 1]
     ELSE tis[id]]

BuildSpawnsWaitsForTick(tis, c, cfg, n) ==
  [id \in InstIds |->
     IF id[1] = c /\ id[2] <= n
     THEN [NewInstance(cfg.tunnels[id[2]], SocksPortOf(cfg, id[2]))
             EXCEPT !.CancelFunc = TRUE, !.ctx = "live", !.run = "select",
                    !.fired = 0]
     ELSE tis[id]]

\* The build loop succeeds on all n tunnels; after the wait for the SOCKS
\* ports (which changes nothing) each instance gets a fresh context, its
\* cancel handle is stored and its checker goroutine started.  Run creates
\* the ticker and calls Check at once.
BuildSpawns(tis, c, cfg, n) ==
  [id \in InstIds |->
     IF id[1] = c /\ id[2] <= n
     THEN [NewInstance(cfg.tunnels[id[2]], SocksPortOf(cfg, id[2]))
             EXCEPT !.CancelFunc = TRUE, !.ctx = "live", !.run = "check",
                    !.fired = 1]
     ELSE tis[id]]

\* A caller enters Initialize(cfg).
EnterInitialize(c, cfg) ==
  ini' = [ini EXCEPT ![c] = [pc |-> "build", cfg |-> cfg, built |-> <<>>]]

\* len(cfg.Tunnels) == 0: Initialize refuses.
InitRefuse(c) ==
  /\ Running
  /\ ini[c].pc = "build"
  /\ Len(ini[c].cfg.tunnels) = 0
  /\ ini' = [ini EXCEPT ![c].pc = "failed"]
  /\ UNCHANGED <<mainpc, instances, ti, m, rl, checks, h, w, d, call>>

\* The build loop, up to the start of the checkers.  k instances are built
\* before InitInstance fails (k = n: none fails).  The parses are decided
\* by the tunnel; whether the provider config is generated and the
\* provider starts is the provider's answer.
InitBuild(c) ==
  /\ Running
  /\ ini[c].pc = "build"
  /\ Len(ini[c].cfg.tunnels) > 0
  /\ LET cfg == ini[c].cfg
         n == Len(cfg.tunnels)
     IN \E k \in 0..n :
          /\ \A i \in 1..k : InitInstanceParses(cfg.tunnels[i])
          /\ IF k = n
             THEN /\ ti' = BuildSpawns(ti, c, cfg, n)
                  /\ ini' = [ini EXCEPT ![c].pc = "publish",
                                        ![c].built = BuiltList(c, n)]
                  /\ m' = m
             ELSE /\ ti' = BuildFails(ti, c, cfg, k)
                  /\ ini' = [ini EXCEPT ![c].pc = "failed",
                                        ![c].built = BuiltList(c, k)]
                  /\ m' = [m EXCEPT !.TunnelInitErrors = @ + 1]
  /\ UNCHANGED <<mainpc, instances, rl, checks, h, w, d, call>>

PublishedAppend(old, built) == old \o built

\* The list Initialize stores in tm.instances.
Published(old, built) == built

\* tm.mu.Lock(); tm.instances = tunnelInstances; tm.mu.Unlock(); return nil
InitPublish(c) ==
  /\ Running
  /\ ini[c].pc = "publish"
  /\ instances' = Published(instances, ini[c].built)
  /\ ini' = [ini EXCEPT ![c].pc = "ok"]
  /\ h' = Disturbed(h)
  /\ UNCHANGED <<mainpc, ti, m, rl, checks, w, d, call>>

(* ------------------------------------------------------------------ *)
(* tunnel.InitInstance, one call                                       *)
(* ------------------------------------------------------------------ *)

\* What the provider answers to InitInstance: CreateXrayConfig fails;
\* StartXray fails before instance.Start (json.Unmarshal, config.Build,
\* core.New); instance.Start fails, in its first feature or in a later
\* one, the features before it running; or all succeed.
ProviderAnswers ==
  {"ok", "config_error", "create_error", "start_error_first",
   "start_error_later"}

\* The tunnels InitInstance is called with: as Load resolves them, and
\* with a port, a check_interval or a check_timeout that does not parse.
InitTunnels ==
  LET a == LoadTunnel(TunA, NoDefaults)
      b == LoadTunnel(TunB, NoDefaults)
  IN {a, b,
      [a EXCEPT !.url.port = "invalid"],
      [a EXCEPT !.check_interval = "soon"],
      [b EXCEPT !.check_timeout = "10"]}

\* InitInstance returns an instance.
InitInstanceOK(t, answer) == InitInstanceParses(t) /\ answer = "ok"

\* The provider that a call of InitInstance leaves: the one of the
\* instance returned; none when a step before instance.Start failed; and
\* when instance.Start failed, the instance core.New made, which StartXray
\* drops without a Close ("unclosed" when features of it are running).
InitInstanceProvider(t, answer) ==
  IF ~InitInstanceParses(t) THEN "nil"
  ELSE CASE answer = "ok" -> "open"
         [] answer = "start_error_later" -> "unclosed"
         [] OTHER -> "nil"

\* InitInstance is called once by c, outside Initialize: with a tunnel
\* and the provider's answer.  Every failing step counts one init error.
InitInstanceCall(c) ==
  /\ ini[c].pc = "idle"
  /\ \E t \in InitTunnels, answer \in ProviderAnswers :
       /\ ini' = [ini EXCEPT ![c] =
                    [pc |-> "instance",
                     cfg |-> [EmptyConfig EXCEPT !.tunnels = <<t>>],
                     built |-> IF InitInstanceOK(t, answer)
                               THEN <<<<c, 1>>>> ELSE <<>>]]
       /\ ti' = [ti EXCEPT ![<<c, 1>>] =
                   IF InitInstanceOK(t, answer)
                   THEN NewInstance(t, DefaultSocksPort)
                   ELSE [NoInstance EXCEPT
                           !.XrayInstance = InitInstanceProvider(t, answer)]]
       /\ m' = IF InitInstanceOK(t, answer) THEN m
               ELSE [m EXCEPT !.TunnelInitErrors = @ + 1]
  /\ UNCHANGED <<mainpc, instances, rl, checks, h, w, d, call>>

(* ------------------------------------------------------------------ *)
(* stopTunnels, StopAll, Reload                                        *)
(* ------------------------------------------------------------------ *)

\* stopTunnels(list): each instance's CancelFunc is called if set and its
\* provider closed if there is one.
StopTunnels(tis, list) ==
  [id \in InstIds |->
     IF id \in Range(list)
     THEN [tis[id] EXCEPT
             !.ctx = IF tis[id].CancelFunc THEN "done" ELSE @,
             !.XrayInstance = IF @ = "nil" THEN @ ELSE "closed"]
     ELSE tis[id]]

\* Reload(configPath) returns at its first stage on file f: config.Load or
\* newConfig.Validate returned an error.
ReloadRejects(f) == ~Load(f).ok \/ ~Validate(Load(f).cfg)

\* The watcher has armed the debounce timer for an event on the config
\* file and the timer fires: time.AfterFunc runs tm.Reload in a goroutine
\* of its own, whatever the Reload calls of earlier timers are doing
\* (Timer.Stop does not reach a function that has started).  Reload loads
\* and validates the file as it is now and returns the error if there is
\* one.
ReloadLoad(r) ==
  /\ mainpc = "serving"
  /\ rl[r].pc = "idle"
  /\ \A q \in 1..(r - 1) : rl[q].pc # "idle"
  /\ \E f \in Files :
       IF ReloadRejects(f)
       THEN rl' = [rl EXCEPT ![r].pc = "returned", ![r].err = "config"]
       ELSE rl' = [rl EXCEPT ![r].pc = "swap", ![r].cfg = Load(f).cfg]
  /\ UNCHANGED <<mainpc, instances, ti, m, ini, checks, h, w, d, call>>

\* Reload: the old list is taken and the active list cleared under the
\* write lock, the old label sets are captured, the old instances are
\* stopped, and Reload enters Initialize.
ReloadSwap(r) ==
  /\ Running
  /\ rl[r].pc = "swap"
  /\ instances' = <<>>
  /\ rl' = [rl EXCEPT ![r].pc = "init",
                      ![r].oldLabelSets = LabelSetsOf(instances)]
  /\ ti' = StopTunnels(ti, instances)
  /\ EnterInitialize(r, rl[r].cfg)
  /\ h' = IF instances # <<>> THEN Disturbed(h) ELSE h
  /\ UNCHANGED <<mainpc, m, checks, w, d, call>>

\* Reload: Initialize returned an error, and Reload returns it.
ReloadInitFailed(r) ==
  /\ Running
  /\ rl[r].pc = "init"
  /\ ini[r].pc = "failed"
  /\ rl' = [rl EXCEPT ![r].pc = "returned", ![r].err = "init"]
  /\ UNCHANGED <<mainpc, instances, ti, m, ini, checks, h, w, d, call>>

\* Reload: Initialize returned nil; the new label sets are read from
\* tm.instances under the read lock, CleanupRemoved runs, Reload returns
\* nil.
ReloadCleanup(r) ==
  /\ Running
  /\ rl[r].pc = "init"
  /\ ini[r].pc = "ok"
  /\ m' = CleanupRemoved(m, rl[r].oldLabelSets, LabelSetsOf(instances))
  /\ rl' = [rl EXCEPT ![r].pc = "returned", ![r].err = "nil",
                      ![r].newLabelSets = LabelSetsOf(instances)]
  /\ UNCHANGED <<mainpc, instances, ti, ini, checks, h, w, d, call>>

(* ------------------------------------------------------------------ *)
(* Reload with stopTunnels taken call by call                          *)
(* ------------------------------------------------------------------ *)

stopTunnelsStepCloseFirst(tis, id) ==
  IF tis[id].XrayInstance = "open"
  THEN [tis EXCEPT ![id].XrayInstance = "closed"]
  ELSE [tis EXCEPT ![id].ctx = "done"]

\* The next call stopTunnels makes on instance id: ti.CancelFunc() when
\* the handle is set and has not been called, then ti.XrayInstance.Close().
stopTunnelsStep(tis, id) ==
  IF tis[id].CancelFunc /\ tis[id].ctx = "live"
  THEN [tis EXCEPT ![id].ctx = "done"]
  ELSE [tis EXCEPT ![id].XrayInstance = "closed"]

\* stopTunnels has made its calls on instance id.
Stopped(tis, id) ==
  /\ tis[id].CancelFunc => tis[id].ctx = "done"
  /\ tis[id].XrayInstance # "open"

\* Reload: the old list is taken and the active list cleared under the
\* write lock, and the old label sets are captured.
ReloadTake(r) ==
  /\ Running
  /\ rl[r].pc = "swap"
  /\ instances' = <<>>
  /\ rl' = [rl EXCEPT ![r].pc = "stop",
                      ![r].oldInstances = instances,
                      ![r].oldLabelSets = LabelSetsOf(instances)]
  /\ h' = IF instances # <<>> THEN Disturbed(h) ELSE h
  /\ UNCHANGED <<mainpc, ti, m, ini, checks, w, d, call>>

\* stopTunnels(oldInstances), one call: on the first instance of the list
\* it is not done with.
ReloadStopStep(r) ==
  /\ Running
  /\ rl[r].pc = "stop"
  /\ \E i \in 1..Len(rl[r].oldInstances) :
       /\ \A j \in 1..(i - 1) : Stopped(ti, rl[r].oldInstances[j])
       /\ ~Stopped(ti, rl[r].oldInstances[i])
       /\ ti' = stopTunnelsStep(ti, rl[r].oldInstances[i])
  /\ UNCHANGED <<mainpc, instances, m, ini, rl, checks, h, w, d, call>>

\* stopTunnels has returned and Reload enters Initialize.
ReloadStopped(r) ==
  /\ Running
  /\ rl[r].pc = "stop"
  /\ \A i \in 1..Len(rl[r].oldInstances) : Stopped(ti, rl[r].oldInstances[i])
  /\ rl' = [rl EXCEPT ![r].pc = "init"]
  /\ EnterInitialize(r, rl[r].cfg)
  /\ UNCHANGED <<mainpc, instances, ti, m, checks, h, w, d, call>>

(* ------------------------------------------------------------------ *)
(* TunnelManager.HealthHandler                                         *)
(* ------------------------------------------------------------------ *)

\* The response for a list whose up flags are all read at once.
HealthResponse(list, tis) ==
  IF Len(list) = 0 THEN "503 no tunnels configured"
  ELSE IF \E i \in 1..Len(list) : tis[list[i]].Up THEN "200 OK"
  ELSE "503 all tunnels down"

\* The handler between two requests.
HealthIdle == [pc |-> "idle", snap |-> <<>>, idx |-> 1, quiet |-> TRUE]

\* A request arrives: tm.mu.RLock(); instances := tm.instances;
\* tm.mu.RUnlock().
HealthSnapshot ==
  /\ mainpc = "serving"
  /\ h.pc = "idle"
  /\ h' = [pc |-> "run", snap |-> instances, idx |-> 1, quiet |-> TRUE]
  /\ UNCHANGED <<mainpc, instances, ti, m, ini, rl, checks, w, d, call>>

HealthAnswerFirstOnly(hh, tis) ==
  IF Len(hh.snap) = 0 THEN "503 no tunnels configured"
  ELSE IF tis[hh.snap[1]].Up THEN "200 OK"
  ELSE "503 all tunnels down"

\* What the handler's next step writes to the client: the empty-list
\* answer, or one turn of its loop (ti.Up.Load() of the instance at idx),
\* which answers 200 at the first up instance and 503 after the last;
\* "none" when the loop goes on.
HealthAnswer(hh, tis) ==
  IF Len(hh.snap) = 0 THEN "503 no tunnels configured"
  ELSE IF tis[hh.snap[hh.idx]].Up THEN "200 OK"
  ELSE IF hh.idx < Len(hh.snap) THEN "none"
  ELSE "503 all tunnels down"

\* The handler's next step: it answers and returns, or goes on to the next
\* instance of its snapshot.
HealthStep ==
  /\ Running
  /\ h.pc = "run"
  /\ h' = IF HealthAnswer(h, ti) = "none"
          THEN [h EXCEPT !.idx = @ + 1]
          ELSE HealthIdle
  /\ UNCHANGED <<mainpc, instances, ti, m, ini, rl, checks, w, d, call>>

(* ------------------------------------------------------------------ *)
(* tunnel.WatchConfigFile                                              *)
(* ------------------------------------------------------------------ *)

Event(name, op) == [name |-> name, op |-> op]

\* event.Has(op)
Has(e, op) == op \in e.op

addFileWatchUnguarded(ww) ==
  IF ~ww.exists \/ ww.pc = "returned" THEN ww
  ELSE [ww EXCEPT !.registered = @ + 1, !.fileWatchActive = TRUE]

\* addFileWatch: nothing when the flag is set, when os.Stat fails, or when
\* watcher.Add fails (the watcher is closed once WatchConfigFile returned);
\* else the file is added to the watcher and the flag set.
addFileWatch(ww) ==
  IF ww.fileWatchActive THEN ww
  ELSE IF ~ww.exists \/ ww.pc = "returned" THEN ww
  ELSE [ww EXCEPT !.registered = @ + 1, !.fileWatchActive = TRUE]

\* removeFileWatch: nothing when the flag is clear; else watcher.Remove
\* (an error, when the watch is gone with the file, is logged only) and
\* the flag cleared.
removeFileWatch(ww) ==
  IF ~ww.fileWatchActive THEN ww
  ELSE [ww EXCEPT !.registered = IF @ > 0 THEN @ - 1 ELSE 0,
                  !.fileWatchActive = FALSE]

\* scheduleFileRewatch: one more goroutine at its 500 ms ticker.
scheduleFileRewatch(ww) == [ww EXCEPT !.pollWait = @ + 1]

debounceNoStop(ww) == [ww EXCEPT !.armed = @ + 1]

\* if debounceTimer != nil { debounceTimer.Stop() }; debounceTimer =
\* time.AfterFunc(...): the timer that has not fired is stopped, a new one
\* runs.
debounce(ww) == [ww EXCEPT !.armed = 1]

handleRemoveAsChange(ww) == debounce(scheduleFileRewatch(removeFileWatch(ww)))

\* The branch for Remove and Rename.
handleRemove(ww) == scheduleFileRewatch(removeFileWatch(ww))

\* The body of case event := <-watcher.Events.
handle(ww, e) ==
  IF e.name = "" \/ e.name # "config" THEN ww
  ELSE IF Has(e, "Remove") \/ Has(e, "Rename") THEN handleRemove(ww)
  ELSE IF Has(e, "Write") \/ Has(e, "Create") \/ Has(e, "Chmod")
  THEN debounce(ww)
  ELSE ww

\* WatchConfigFile up to its loop: the directory is watched, addFileWatch
\* is called.
WatchStart ==
  /\ w.pc = "start"
  /\ w' = [addFileWatch(w) EXCEPT !.pc = "loop"]
  /\ UNCHANGED <<mainpc, instances, ti, m, ini, rl, checks, h, d, call>>

\* The loop takes an event from watcher.Events.
HandleEvent ==
  /\ w.pc = "loop"
  /\ w.events # <<>>
  /\ w' = [handle(w, Head(w.events)) EXCEPT !.events = Tail(w.events)]
  /\ UNCHANGED <<mainpc, instances, ti, m, ini, rl, checks, h, d, call>>

\* The loop takes <-ctx.Done(): WatchConfigFile returns, its deferred
\* calls stop the last debounce timer and close the watcher.
WatchReturn ==
  /\ w.pc = "loop"
  /\ w.ctx = "done"
  /\ w' = [w EXCEPT !.pc = "returned", !.armed = 0, !.registered = 0]
  /\ UNCHANGED <<mainpc, instances, ti, m, ini, rl, checks, h, d, call>>

\* main cancels the watcher's context.
WatchCancel ==
  /\ w.pc = "loop"
  /\ w.ctx = "live"
  /\ w' = [w EXCEPT !.ctx = "done"]
  /\ UNCHANGED <<mainpc, instances, ti, m, ini, rl, checks, h, d, call>>

\* A debounce timer fires: tm.Reload(absConfig) is called in a goroutine
\* of its own.
TimerFires ==
  /\ w.armed > 0
  /\ w' = [w EXCEPT !.armed = @ - 1, !.reloads = @ + 1]
  /\ UNCHANGED <<mainpc, instances, ti, m, ini, rl, checks, h, d, call>>

\* A rewatch goroutine takes a tick and os.Stat finds the file.
PollSees ==
  /\ w.pollWait > 0
  /\ w.exists
  /\ w' = [w EXCEPT !.pollWait = @ - 1, !.pollAdd = @ + 1]
  /\ UNCHANGED <<mainpc, instances, ti, m, ini, rl, checks, h, d, call>>

\* A rewatch goroutine calls addFileWatch and returns.
PollAdds ==
  /\ w.pollAdd > 0
  /\ w' = [addFileWatch(w) EXCEPT !.pollAdd = @ - 1]
  /\ UNCHANGED <<mainpc, instances, ti, m, ini, rl, checks, h, d, call>>

\* A rewatch goroutine takes <-ctx.Done() and returns.
PollReturn ==
  /\ w.pollWait > 0
  /\ w.ctx = "done"
  /\ w' = [w EXCEPT !.pollWait = @ - 1]
  /\ UNCHANGED <<mainpc, instances, ti, m, ini, rl, checks, h, d, call>>

\* The events fsnotify delivers for one change of the config file: one
\* from the directory watch and, when the file itself is watched, one from
\* the file-level watch.
Delivered(ww, op) ==
  IF ww.registered > 0
  THEN <<Event("config", {op}), Event("config", {op})>>
  ELSE <<Event("config", {op})>>

\* The file system makes a change the watcher has events for.
FsChange(ww, evs) ==
  /\ w.pc = "loop"
  /\ w.fsops < MaxFsOps
  /\ Len(w.events) + Len(evs) <= MaxQueue
  /\ w' = [ww EXCEPT !.events = w.events \o evs, !.fsops = @ + 1]
  /\ UNCHANGED <<mainpc, instances, ti, m, ini, rl, checks, h, d, call>>

\* The config file is written, or its mode changed.
FsWrite ==
  /\ w.exists
  /\ \E op \in {"Write", "Chmod"} : FsChange(w, Delivered(w, op))

\* The config file is removed: its file-level watch goes with it.
FsRemove ==
  /\ w.exists
  /\ FsChange([w EXCEPT !.exists = FALSE, !.registered = 0],
              Delivered(w, "Remove"))

\* The config file is renamed away: the watch stays on the renamed file.
FsRename ==
  /\ w.exists
  /\ FsChange([w EXCEPT !.exists = FALSE], Delivered(w, "Rename"))

\* A file of the config file's name is created.
FsCreate ==
  /\ ~w.exists
  /\ FsChange([w EXCEPT !.exists = TRUE, !.created = @ + 1],
              <<Event("config", {"Create"})>>)

\* The events of creating the file and writing its content at once (as
\* os.WriteFile does): Create, then the Write and Chmod events, if any.
RecreateBursts ==
  {<<Event("config", {"Create"})>>,
   <<Event("config", {"Create"}), Event("config", {"Write"})>>,
   <<Event("config", {"Create"}), Event("config", {"Write"}),
     Event("config", {"Chmod"})>>}

\* The config file, there from the start, is removed or renamed away.
FirstRemove ==
  /\ w.created = 0
  /\ (FsRemove \/ FsRename)

\* The file removed is created anew, its events arriving in one burst.
Recreate ==
  /\ ~w.exists
  /\ w.created = 0
  /\ \E evs \in RecreateBursts :
       FsChange([w EXCEPT !.exists = TRUE, !.created = @ + 1], evs)

\* The debounce timer fires when the burst has been handled: no event of
\* it came later than a second after the one before.
TimerFiresAfterBurst ==
  /\ w.events = <<>>
  /\ TimerFires

\* Another file of the directory is written or removed, or an event comes
\* without a name.
FsOther ==
  \E name \in {"other", ""}, op \in {"Write", "Remove"} :
    FsChange(w, <<Event(name, {op})>>)

(* ------------------------------------------------------------------ *)
(* socks.Dialer.DialContext                                            *)
(* ------------------------------------------------------------------ *)

\* The errors DialContext returns: the step that failed and, for a CONNECT
\* the proxy refused, the reply code in the message.
DialErr(kind) == [kind |-> kind, code |-> 0]

ConnectErr(rep) == [kind |-> "connect", code |-> rep]

\* A host name of n bytes.
RECURSIVE HostOfLength(_)
HostOfLength(n) == IF n = 0 THEN "" ELSE "a" \o HostOfLength(n - 1)

\* The addr arguments, by what net.SplitHostPort makes of them: host:port
\* with a host of 11, 255 or 256 bytes and a port that is a number, in or
\* out of the range of 16 bits, or a word; and one without a colon.
DialAddrs ==
  [host : {"example.com", HostOfLength(255), HostOfLength(256)},
   port : DigitStrings \cup {"https"}, colon : {TRUE}]
    \cup {[host |-> "example.com", port |-> "", colon |-> FALSE]}

SplitHostPortOK(addr) == addr.colon

PortAtoiOK(addr) == AtoiOK(addr.port)

\* req: 5, 1, 0, 3, byte(len(host)), the bytes of host, byte(port>>8),
\* byte(port&0xff); a byte keeps the low 8 bits.
ConnectRequest(host, port) ==
  [head |-> <<5, 1, 0, 3>>, len |-> Len(host) % 256, host |-> host,
   port |-> <<(port \div 256) % 256, port % 256>>]

\* The 2-byte method-selection replies a proxy sends.
MethodReplies == {<<5, 0>>, <<4, 0>>, <<5, 2>>, <<5, 255>>, <<0, 0>>}

\* The 4-byte headers VER REP RSV ATYP of the CONNECT reply.
ReplyHeaders ==
  {<<ver, rep, 0, atyp>> :
     ver \in {5, 4}, rep \in {0, 1, 5}, atyp \in {0, 1, 2, 3, 4, 5}}

\* The length bytes of a domain in the bound address.
DomainLens == {0, 11, 255}

DialFailsLeavesOpen(dd, err) ==
  [dd EXCEPT !.pc = "returned", !.result = "error", !.err = err]

\* return nil, err after _ = conn.Close()
DialFailsClosed(dd, err) ==
  [dd EXCEPT !.pc = "returned", !.conn = "closed", !.result = "error",
             !.err = err]

\* net.DialTimeout, conn.SetDeadline when ctx has a deadline, and the
\* write of the greeting 05 01 00; io names the step that fails.
DialConnect ==
  /\ d.pc = "idle"
  /\ \E addr \in DialAddrs, deadline \in BOOLEAN,
        io \in {"ok", "dial", "deadline", "write"} :
       LET dd == [d EXCEPT !.addr = addr, !.deadline = deadline]
       IN d' =
            IF io = "dial"
            THEN [dd EXCEPT !.pc = "returned", !.result = "error",
                            !.err = DialErr("dial")]
            ELSE IF io = "deadline" /\ deadline
            THEN DialFailsClosed([dd EXCEPT !.conn = "open"], DialErr("deadline"))
            ELSE IF io = "write"
            THEN DialFailsClosed([dd EXCEPT !.conn = "open"], DialErr("write"))
            ELSE [dd EXCEPT !.pc = "method", !.conn = "open",
                            !.sent = <<"greeting">>]
  /\ UNCHANGED <<mainpc, instances, ti, m, ini, rl, checks, h, w, call>>

MethodAcceptedAnyMethod(buf) == buf[1] = 5

\* buf[0] != 5 || buf[1] != 0 fails the handshake.
MethodAccepted(buf) == buf[1] = 5 /\ buf[2] = 0

\* The read of the method reply, its test, SplitHostPort, Atoi and the
\* write of the CONNECT request.
DialMethod ==
  /\ d.pc = "method"
  /\ \/ d' = DialFailsClosed(d, DialErr("read"))
     \/ \E buf \in MethodReplies, io \in {"ok", "write"} :
          LET dd == [d EXCEPT !.method = buf]
          IN d' =
               IF ~MethodAccepted(buf)
               THEN DialFailsClosed(dd, DialErr("handshake"))
               ELSE IF ~SplitHostPortOK(d.addr)
               THEN DialFailsClosed(dd, DialErr("splithostport"))
               ELSE IF ~PortAtoiOK(d.addr)
               THEN DialFailsClosed(dd, DialErr("atoi"))
               ELSE IF io = "write"
               THEN DialFailsClosed(dd, DialErr("write"))
               ELSE [dd EXCEPT !.pc = "reply",
                               !.sent = Append(@, "connect"),
                               !.req = ConnectRequest(
                                         d.addr.host,
                                         DigitValue(d.addr.port))]
  /\ UNCHANGED <<mainpc, instances, ti, m, ini, rl, checks, h, w, call>>

\* The read of the 4-byte reply header and the test of REP.
DialReply ==
  /\ d.pc = "reply"
  /\ \/ d' = DialFailsClosed(d, DialErr("read"))
     \/ \E resp \in ReplyHeaders :
          LET dd == [d EXCEPT !.resp = resp]
          IN d' =
               IF resp[2] # 0
               THEN DialFailsClosed(dd, ConnectErr(resp[2]))
               ELSE [dd EXCEPT !.pc = "drain"]
  /\ UNCHANGED <<mainpc, instances, ti, m, ini, rl, checks, h, w, call>>

\* The bytes the switch on resp[3] reads after the header (for a domain of
\* length n the length byte, then n + 2); the switch has no default, an
\* ATYP it does not name reads nothing.
BoundAddrBytes(atyp, n) ==
  CASE atyp = 1 -> 4 + 2
    [] atyp = 3 -> 1 + (n + 2)
    [] atyp = 4 -> 16 + 2
    [] OTHER -> 0

\* The switch on resp[3], the clearing of the deadline and the return of
\* the connection.
DialDrain ==
  /\ d.pc = "drain"
  /\ \/ d.resp[4] \in {1, 3, 4} /\ d' = DialFailsClosed(d, DialErr("read"))
     \/ \E n \in DomainLens, io \in {"ok", "deadline"} :
          LET len == IF d.resp[4] = 3 THEN n ELSE 0
              dd == [d EXCEPT !.lenByte = len,
                              !.drained = BoundAddrBytes(d.resp[4], len)]
          IN d' =
               IF io = "deadline"
               THEN DialFailsClosed(dd, DialErr("deadline"))
               ELSE [dd EXCEPT !.pc = "returned", !.result = "stream"]
  /\ UNCHANGED <<mainpc, instances, ti, m, ini, rl, checks, h, w, call>>

(* ------------------------------------------------------------------ *)
(* config.Load and ParseVLESSURL, called on their own                  *)
(* ------------------------------------------------------------------ *)

\* The values a tunnel and the defaults block give check_url,
\* check_interval and check_timeout: none, or one of their own.
OwnValues ==
  [check_url : {"", "https://own.example.com"},
   check_interval : {"", "5s"},
   check_timeout : {"", "500ms"}]

DefaultsValues ==
  [check_url : {"", "https://defaults.example.com"},
   check_interval : {"", "0s"},
   check_timeout : {"", "-5s"}]

\* The config files Load is called with: a tunnel with values of its own
\* and one without, under a defaults block, with and without
\* socks_base_port; and the files Load refuses.
LoadFiles ==
  {[ConfigFile(<<[TunA EXCEPT !.check_url = own.check_url,
                              !.check_interval = own.check_interval,
                              !.check_timeout = own.check_timeout],
                 TunB>>)
      EXCEPT !.defaults = dflt, !.socks_base_port = port] :
     own \in OwnValues, dflt \in DefaultsValues,
     port \in {0, DefaultSocksPort + 1000}}
  \cup {FileUnreadable, FileMalformed, FileNoTunnels, FileNoURL}

\* config.Load(configPath) is called and returns.
CallLoad ==
  /\ \E f \in LoadFiles :
       call' = [fn |-> "Load", arg |-> f, ret |-> Load(f)]
  /\ UNCHANGED <<mainpc, instances, ti, m, ini, rl, checks, h, w, d>>

\* The URLs ParseVLESSURL is called with, by their components: with and
\* without the vless scheme, a user, a host, a port that is a number in
\* or out of range, a word or missing.
ParseURLs ==
  {[VlessURL(uuid, host, port, security, "sni-a") EXCEPT !.scheme = scheme] :
     scheme \in {"vless", "http", ""}, uuid \in {"", "uuid-a"},
     host \in {"", "a.example.com"},
     port \in DigitStrings \cup {"", "invalid"},
     security \in {"tls", "reality"}}
  \cup {EmptyURL}

\* ParseVLESSURL(vlessURL) is called and returns.
CallParseVLESSURL ==
  /\ \E u \in ParseURLs :
       call' = [fn |-> "ParseVLESSURL", arg |-> u,
                ret |-> [ok |-> ParseVLESSURLOK(u)]]
  /\ UNCHANGED <<mainpc, instances, ti, m, ini, rl, checks, h, w, d>>

(* ------------------------------------------------------------------ *)
(* CreateXrayConfig and CreateStreamSettings                           *)
(* ------------------------------------------------------------------ *)

CreateStreamSettingsKeyFromShortId(v) ==
  LET tcp == IF v.Type = "tcp"
             THEN [tcpSettings |-> [header |-> [type |-> "none"]]]
             ELSE <<>>
  IN CASE v.Security = "reality" ->
            [network |-> v.Type, security |-> "reality",
             realitySettings |->
               [show |-> FALSE, fingerprint |-> v.FP, serverName |-> v.SNI,
                publicKey |-> v.SID]] @@ tcp
       [] v.Security = "tls" ->
            [network |-> v.Type, security |-> "tls",
             tlsSettings |->
               [serverName |-> v.SNI, allowInsecure |-> FALSE,
                fingerprint |-> v.FP]] @@ tcp
       [] OTHER -> [network |-> v.Type] @@ tcp

\* CreateStreamSettings(vlessConfig): the map it returns, as a function of
\* its keys.  tcpSettings is there for type tcp only, realitySettings and
\* tlsSettings with "security" for these two values of Security only (the
\* switch has no other case), shortId and spiderX when they are not empty.
CreateStreamSettings(v) ==
  LET tcp == IF v.Type = "tcp"
             THEN [tcpSettings |-> [header |-> [type |-> "none"]]]
             ELSE <<>>
      sid == IF v.SID # "" THEN [shortId |-> v.SID] ELSE <<>>
      spx == IF v.SPX # "" THEN [spiderX |-> v.SPX] ELSE <<>>
  IN CASE v.Security = "reality" ->
            [network |-> v.Type, security |-> "reality",
             realitySettings |->
               [show |-> FALSE, fingerprint |-> v.FP, serverName |-> v.SNI,
                publicKey |-> v.PBK] @@ sid @@ spx] @@ tcp
       [] v.Security = "tls" ->
            [network |-> v.Type, security |-> "tls",
             tlsSettings |->
               [serverName |-> v.SNI, allowInsecure |-> FALSE,
                fingerprint |-> v.FP]] @@ tcp
       [] OTHER -> [network |-> v.Type] @@ tcp

\* CreateXrayConfig(vlessConfig, socksPort): the map that is marshalled,
\* XRAY_LOG_LEVEL not being set.
CreateXrayConfig(v, socksPort) ==
  [log |-> [loglevel |-> "warning"],
   inbounds |->
     <<[port |-> socksPort, listen |-> "127.0.0.1", protocol |-> "socks",
        settings |-> [auth |-> "noauth", udp |-> TRUE]]>>,
   outbounds |->
     <<[protocol |-> "vless",
        settings |->
          [vnext |->
             <<[address |-> v.Address, port |-> v.Port,
                users |->
                  <<[id |-> v.UUID, encryption |-> "none", flow |-> ""]>>]>>],
        streamSettings |-> CreateStreamSettings(v)]>>]

\* ParseVLESSURL and CreateXrayConfig are called as InitInstance calls
\* them, on a URL that carries every recognized key: each transport type
\* and security value of the tests, one that CreateStreamSettings does not
\* name and none, with sid and spx empty or not.
CallCreateXrayConfig ==
  /\ \E type \in {"tcp", "ws"}, security \in {"reality", "tls", "none", ""},
        port \in {"443", "8443"}, fp \in {"chrome", "firefox"},
        sid \in {"", "short123"}, spx \in {"", "/"} :
       LET u == [VlessURL("uuid-a", "a.example.com", port, security, "sni-a")
                   EXCEPT !.type = type, !.pbk = "test-key", !.fp = fp,
                          !.sid = sid, !.spx = spx]
       IN /\ ParseVLESSURLOK(u)
          /\ call' = [fn |-> "CreateXrayConfig", arg |-> u,
                      ret |-> CreateXrayConfig(ParseVLESSURL(u),
                                               DefaultSocksPort)]
  /\ UNCHANGED <<mainpc, instances, ti, m, ini, rl, checks, h, w, d>>

\* (m *Metrics) CleanupRemoved(old, new) is called on a registry in which
\* every label set has its six series: the label sets of the tests
\* (removed, kept, new) and two that differ in security and sni only, by
\* where the "|" stands; old and new are lists of up to two of them.
CallCleanupRemoved ==
  /\ call.fn = "none"
  /\ LET Named(name, security, sni) ==
           [Name |-> name, Server |-> name \o ".example.com:443",
            Security |-> security, SNI |-> sni]
         sets == {Named("removed", "reality", "google.com"),
                  Named("kept", "tls", "kept.example.com"),
                  Named("new", "tls", "new.example.com"),
                  Named("bar", "tls", "a|b"),
                  Named("bar", "tls|a", "b")}
         lists == {<<>>} \cup {<<x>> : x \in sets}
                    \cup {<<x, y>> : x \in sets, y \in sets}
         populated ==
           [TunnelUp |-> [l \in sets |-> 1],
            TunnelLatency |-> [l \in sets |-> 1],
            TunnelLastSuccess |-> [l \in sets |-> 1],
            TunnelHTTPStatus |-> [l \in sets |-> 200],
            TunnelCheckTotal |->
              [x \in {CheckLabels(l, res) :
                        l \in sets, res \in {"success", "failure"}} |-> 1],
            TunnelInitErrors |-> 0]
     IN \E old \in lists, new \in lists :
          call' = [fn |-> "CleanupRemoved", arg |-> <<populated, old, new>>,
                   ret |-> CleanupRemoved(populated, old, new)]
  /\ UNCHANGED <<mainpc, instances, ti, m, ini, rl, checks, h, w, d>>

\* The first stage of Reload on its own, config.Load and
\* newConfig.Validate, and for each tunnel of the loaded config the steps
\* InitInstance takes before it creates the provider.  The file has one
\* tunnel, alone or after TunB, whose URL has the vless scheme or not and
\* a port that is a number, a word or missing, and whose check_interval
\* and check_timeout are missing, positive, zero, negative or no duration;
\* the defaults block sets a zero check_interval or none.
CallValidate ==
  /\ call.fn = "none"
  /\ \E scheme \in {"vless", "http"}, port \in {"443", "invalid", ""},
        interval \in {"", "5s", "0s", "-5s", "abc"},
        timeout \in {"", "500ms", "30"}, dflt \in {"", "0s"},
        first \in {<<>>, <<TunB>>} :
       LET t == [TunA EXCEPT !.url.scheme = scheme, !.url.port = port,
                             !.check_interval = interval,
                             !.check_timeout = timeout]
           f == [ConfigFile(first \o <<t>>)
                   EXCEPT !.defaults.check_interval = dflt]
           cfg == Load(f).cfg
       IN call' = [fn |-> "Validate", arg |-> f,
                   ret |-> [loaded |-> Load(f).ok, valid |-> Validate(cfg),
                            cfg |-> cfg,
                            parses |->
                              [i \in 1..Len(cfg.tunnels) |->
                                 InitInstanceParses(cfg.tunnels[i])]]]
  /\ UNCHANGED <<mainpc, instances, ti, m, ini, rl, checks, h, w, d>>

(* ------------------------------------------------------------------ *)
(* main                                                                *)
(* ------------------------------------------------------------------ *)

\* config.Load fails at startup: os.Exit(1).
MainLoadFails ==
  /\ mainpc = "start"
  /\ \E f \in Files : ~Load(f).ok
  /\ mainpc' = "failed"
  /\ UNCHANGED <<instances, ti, m, ini, rl, checks, h, w, d, call>>

\* The first Initialize call on the manager, with one of cfgs.
MainInitializeOf(cfgs) ==
  /\ mainpc = "start"
  /\ \E cfg \in cfgs : EnterInitialize(0, cfg)
  /\ mainpc' = "init"
  /\ UNCHANGED <<instances, ti, m, rl, checks, h, w, d, call>>

MainInitialize == MainInitializeOf(StartConfigs)

MainInitializeProbe == MainInitializeOf(ProbeConfigs)

\* Initialize failed at startup: os.Exit(1).
MainInitFailed ==
  /\ mainpc = "init"
  /\ ini[0].pc = "failed"
  /\ mainpc' = "failed"
  /\ UNCHANGED <<instances, ti, m, ini, rl, checks, h, w, d, call>>

\* Initialize succeeded: StopAll is deferred, the watcher goroutine and the
\* HTTP server are started.
MainServe ==
  /\ mainpc = "init"
  /\ ini[0].pc = "ok"
  /\ mainpc' = "serving"
  /\ UNCHANGED <<instances, ti, m, ini, rl, checks, h, w, d, call>>

\* SIGINT or SIGTERM: the watcher's context is done (no timer fires any
\* more), the HTTP server is shut down, main returns and the deferred
\* StopAll runs: the list is taken and cleared under the write lock and
\* its instances are stopped.  StopAll returns and the process ends.
\* Reload calls that have started go on until then.
StopAll ==
  /\ mainpc = "serving"
  /\ instances' = <<>>
  /\ ti' = StopTunnels(ti, instances)
  /\ mainpc' = "exited"
  /\ h' = IF instances # <<>> THEN Disturbed(h) ELSE h
  /\ UNCHANGED <<m, ini, rl, checks, w, d, call>>

(* ------------------------------------------------------------------ *)
(* The specification                                                   *)
(* ------------------------------------------------------------------ *)

Next ==
  \/ MainLoadFails
  \/ MainInitialize
  \/ MainInitFailed
  \/ MainServe
  \/ StopAll
  \/ \E c \in Callers : InitRefuse(c)
  \/ \E c \in Callers : InitBuild(c)
  \/ \E c \in Callers : InitPublish(c)
  \/ \E r \in Reloads : ReloadLoad(r)
  \/ \E r \in Reloads : ReloadSwap(r)
  \/ \E r \in Reloads : ReloadInitFailed(r)
  \/ \E r \in Reloads : ReloadCleanup(r)
  \/ \E id \in InstIds : CheckEnd(id)
  \/ \E id \in InstIds : RunTick(id)
  \/ \E id \in InstIds : RunReturn(id)

Spec == Init /\ [][Next]_vars

\* The writers of the manager alone, while every probe that Initialize has
\* started is still in flight (a Check lasts as long as its dial and
\* request timeouts let it).
NextLifecycle ==
  \/ MainLoadFails
  \/ MainInitialize
  \/ MainInitFailed
  \/ MainServe
  \/ StopAll
  \/ \E c \in Callers : InitRefuse(c)
  \/ \E c \in Callers : InitBuild(c)
  \/ \E c \in Callers : InitPublish(c)
  \/ \E r \in Reloads : ReloadLoad(r)
  \/ \E r \in Reloads : ReloadSwap(r)
  \/ \E r \in Reloads : ReloadInitFailed(r)
  \/ \E r \in Reloads : ReloadCleanup(r)

SpecLifecycle == Init /\ [][NextLifecycle]_vars

\* The program while the config file does not change, its probes meeting
\* every outcome.
NextProbe ==
  \/ MainLoadFails
  \/ MainInitializeProbe
  \/ MainInitFailed
  \/ MainServe
  \/ StopAll
  \/ \E c \in Callers : InitRefuse(c)
  \/ \E c \in Callers : InitBuild(c)
  \/ \E c \in Callers : InitPublish(c)
  \/ \E id \in InstIds : ProbeEnd(id)
  \/ \E id \in InstIds : ProbeTick(id)

SpecProbe == Init /\ [][NextProbe]_vars

\* The program with GET /health requests arriving while it serves and the
\* config file changed at most once (one Reload empties and refills the
\* list under the handler).
NextHealth ==
  \/ MainLoadFails
  \/ MainInitialize
  \/ MainInitFailed
  \/ MainServe
  \/ StopAll
  \/ \E c \in Callers : InitRefuse(c)
  \/ \E c \in Callers : InitBuild(c)
  \/ \E c \in Callers : InitPublish(c)
  \/ ReloadLoad(1)
  \/ ReloadSwap(1)
  \/ ReloadInitFailed(1)
  \/ ReloadCleanup(1)
  \/ \E id \in InstIds : CheckEnd(id)
  \/ \E id \in InstIds : RunTick(id)
  \/ \E id \in InstIds : RunReturn(id)
  \/ HealthSnapshot
  \/ HealthStep

SpecHealth == Init /\ [][NextHealth]_vars

\* The probes with Check's writes taken one after the other, under one
\* Reload: the probe of a replaced instance is still in flight when the
\* first probe of its successor runs.
NextGauge ==
  \/ MainLoadFails
  \/ MainInitialize
  \/ MainInitFailed
  \/ MainServe
  \/ StopAll
  \/ \E c \in Callers : InitRefuse(c)
  \/ \E c \in Callers : InitBuild(c)
  \/ \E c \in Callers : InitPublish(c)
  \/ ReloadLoad(1)
  \/ ReloadSwap(1)
  \/ ReloadInitFailed(1)
  \/ ReloadCleanup(1)
  \/ \E id \in InstIds : CheckSetsUp(id)
  \/ \E id \in InstIds : CheckFinishes(id)
  \/ \E id \in InstIds : RunTick(id)

SpecGauge == Init /\ [][NextGauge]_vars

\* The watcher alone: the file system changes the config directory at
\* any time, the debounce timer fires at any time after its start.
SpecWatcher ==
  /\ Init
  /\ [][
    \/ WatchStart
    \/ HandleEvent
    \/ WatchReturn
    \/ WatchCancel
    \/ TimerFires
    \/ PollSees
    \/ PollAdds
    \/ PollReturn
    \/ FsWrite
    \/ FsRemove
    \/ FsRename
    \/ FsCreate
    \/ FsOther]_vars

\* The watcher's goroutines are scheduled: the loop takes a waiting event,
\* a rewatch goroutine gets its ticks and runs on.
SpecWatcherFair ==
  /\ SpecWatcher
  /\ WF_vars(WatchStart)
  /\ WF_vars(HandleEvent)
  /\ WF_vars(PollSees)
  /\ WF_vars(PollAdds)

\* The watcher when the config file is removed and created anew, once.
SpecRecreate ==
  /\ Init
  /\ [][
    \/ WatchStart
    \/ HandleEvent
    \/ TimerFiresAfterBurst
    \/ PollSees
    \/ PollAdds
    \/ FirstRemove
    \/ Recreate
    \/ FsOther]_vars

\* One DialContext call against a proxy that answers anything.
SpecDial ==
  /\ Init
  /\ [][
    \/ DialConnect
    \/ DialMethod
    \/ DialReply
    \/ DialDrain]_vars

\* Calls of InitInstance, one per caller.
SpecInitInstance == Init /\ [][\E c \in Callers : InitInstanceCall(c)]_vars

\* config.Load on the files of LoadFiles.
SpecLoad == Init /\ [][CallLoad]_vars

\* ParseVLESSURL on the URLs of ParseURLs.
SpecParse == Init /\ [][CallParseVLESSURL]_vars

\* The writers of the manager with stopTunnels taken call by call: a
\* Reload can be between the cancel and the close of an old instance
\* while the other Reload runs.
SpecStop ==
  /\ Init
  /\ [][
    \/ MainInitialize
    \/ MainInitFailed
    \/ MainServe
    \/ \E c \in Callers : InitRefuse(c)
    \/ \E c \in Callers : InitBuild(c)
    \/ \E c \in Callers : InitPublish(c)
    \/ \E r \in Reloads : ReloadLoad(r)
    \/ \E r \in Reloads : ReloadTake(r)
    \/ \E r \in Reloads : ReloadStopStep(r)
    \/ \E r \in Reloads : ReloadStopped(r)
    \/ \E r \in Reloads : ReloadInitFailed(r)
    \/ \E r \in Reloads : ReloadCleanup(r)]_vars

\* ParseVLESSURL and CreateXrayConfig on URLs with every recognized key.
SpecXrayConfig == Init /\ [][CallCreateXrayConfig]_vars

\* CleanupRemoved on lists of label sets.
SpecCleanup == Init /\ [][CallCleanupRemoved]_vars

\* Load and Validate on files with good and bad tunnels.
SpecValidate == Init /\ [][CallValidate]_vars

(* ------------------------------------------------------------------ *)
(* Properties                                                          *)
(* ------------------------------------------------------------------ *)

\* Reload r is between its entry and its return.
ReloadInProgress(r) == rl[r].pc \in {"swap", "init"}

\* Reload r returns in this step.
ReloadReturns(r) == ReloadInProgress(r) /\ rl'[r].pc = "returned"

\* The instances a caller's Initialize has built.
BuiltBy(c) == {id \in InstIds : id[1] = c /\ ti[id].built}

\* C1: a Reload that meets a file that is unreadable, malformed, without
\* tunnels, or with a tunnel that has no url, a url that is not vless://, a
\* port that is no integer, or a check_interval or check_timeout that does
\* not parse, is rejected at its first stage; and a Reload rejected there
\* returns the error having changed neither the active list, nor any
\* instance (probe loop, provider, up flag), nor any metric series, so
\* /health answers as before.
C1_RejectedReloadChangesNothing ==
  [][/\ \A f \in BadFiles : ReloadRejects(f)
     /\ \A r \in Reloads :
          (rl[r].pc = "idle" /\ rl'[r].pc = "returned")
            => /\ rl'[r].err = "config"
               /\ instances' = instances
               /\ ti' = ti
               /\ m' = m
               /\ HealthResponse(instances', ti') =
                    HealthResponse(instances, ti)]_vars

\* A Reload has been rejected while a tunnel was up and had its series.
C1_Witness ==
  \E r \in Reloads :
    /\ rl[r].pc = "returned"
    /\ rl[r].err = "config"
    /\ HealthResponse(instances, ti) = "200 OK"
    /\ \E i \in 1..Len(instances) : HasSeries(m, ti[instances[i]].label)

\* C2: once a Reload has returned nil, a label set that was in the old
\* active set and is not in the new one (and that no instance still alive
\* carries) has no series in any per-tunnel family.
C2_RemovedLabelSetsHaveNoSeries ==
  \A r \in Reloads :
    (rl[r].pc = "returned" /\ rl[r].err = "nil")
      => \A ls \in RemovedLabelSets(rl[r].oldLabelSets, rl[r].newLabelSets) :
           (\A id \in InstIds :
              (ti[id].built /\ ti[id].label = ls) => ti[id].ctx # "live")
             => ~HasSeries(m, ls)

\* C3: when StopAll has returned, the active list is empty and every
\* instance that was started has its context cancelled and its provider
\* closed.
C3_StopAllStopsEverything ==
  mainpc = "exited"
    => /\ instances = <<>>
       /\ \A id \in InstIds :
            ti[id].built
              => ti[id].ctx # "live" /\ ti[id].XrayInstance = "closed"

\* C4: at most one Reload is in progress at any moment.
C4_OneWriterAtATime ==
  Cardinality({r \in Reloads : ReloadInProgress(r)}) <= 1

\* C5: the active list, which is what a reader copies under the read lock,
\* is empty or the complete list of instances that one Initialize call
\* built and published.
C5_ListIsOneGeneration ==
  \/ instances = <<>>
  \/ \E c \in Callers :
       /\ ini[c].pc = "ok"
       /\ instances = BuiltList(c, Len(ini[c].cfg.tunnels))
       /\ instances = ini[c].built

\* The list of the second Reload is active, after two earlier generations.
C5_Witness ==
  /\ instances = BuiltList(MaxReloads, Len(FileAB.tunnels))
  /\ BuiltBy(0) # {}
  /\ BuiltBy(1) # {}

\* C6: a /health request during which neither the list nor an up flag
\* changes is answered 200 OK iff an instance of the active list is up,
\* 503 all tunnels down if the list is non-empty and none is, and 503 no
\* tunnels configured if the list is empty.
C6_HealthAnswer ==
  (h.pc = "run" /\ h.quiet /\ HealthAnswer(h, ti) # "none")
    => HealthAnswer(h, ti) = HealthResponse(instances, ti)

\* The handler is about to answer 200 for the second instance of its
\* snapshot, the first being down.
C6_Witness ==
  /\ h.pc = "run"
  /\ h.quiet
  /\ h.idx > 1
  /\ HealthAnswer(h, ti) = "200 OK"

\* C7: Initialize publishes no list for a config without tunnels; and an
\* Initialize that failed has closed the provider of every instance it had
\* built, started no probe loop, and put none of them in the active list.
C7_FailedInitializePublishesNothing ==
  \A c \in Callers :
    /\ ini[c].pc \in {"publish", "ok"} => Len(ini[c].cfg.tunnels) > 0
    /\ ini[c].pc = "failed"
         => /\ Len(ini[c].built) < Len(ini[c].cfg.tunnels)
                 \/ ini[c].cfg.tunnels = <<>>
            /\ \A i \in 1..Len(ini[c].built) :
                 /\ ti[ini[c].built[i]].XrayInstance = "closed"
                 /\ ti[ini[c].built[i]].run = "none"
                 /\ ti[ini[c].built[i]].ctx = "none"
            /\ \A id \in InstIds : id[1] = c => id \notin Range(instances)

\* An Initialize has failed on its second tunnel, the first being built.
C7_Witness ==
  \E c \in Callers :
    /\ ini[c].pc = "failed"
    /\ Len(ini[c].built) = Len(ini[c].cfg.tunnels) - 1
    /\ ini[c].built # <<>>

\* C8: a Reload whose Initialize failed returns with the active list
\* empty and /health at 503.
C8_FailedReloadLeavesListEmpty ==
  [][\A r \in Reloads :
       (ReloadReturns(r) /\ rl'[r].err = "init")
         => /\ instances' = <<>>
            /\ HealthResponse(instances', ti') # "200 OK"]_vars

\* C9: the instance at position i of the active list has socksPort
\* socks_base_port + (i - 1), the base being 1080 when the file sets none;
\* no two instances of the list share a port.
C9_SocksPorts ==
  /\ \A f \in GoodFiles :
       f.socks_base_port = 0 => Load(f).cfg.socks_base_port = 1080
  /\ \A i \in 1..Len(instances) :
       ti[instances[i]].SocksPort =
         ini[instances[i][1]].cfg.socks_base_port + (i - 1)
  /\ \A i, j \in 1..Len(instances) :
       i # j => ti[instances[i]].SocksPort # ti[instances[j]].SocksPort

\* A list of two instances is active, built from a file that sets no base.
C9_Witness ==
  /\ Len(instances) > 1
  /\ ti[instances[1]].SocksPort = DefaultSocksPort

\* C10: every instance of the active list has its probe loop running under
\* a context that is not cancelled and whose cancel handle it stores, and
\* an open provider; no instance is in the list twice.
C10_ActiveInstancesRun ==
  /\ \A i \in 1..Len(instances) :
       /\ ti[instances[i]].run \in {"check", "select"}
       /\ ti[instances[i]].ctx = "live"
       /\ ti[instances[i]].CancelFunc
       /\ ti[instances[i]].XrayInstance = "open"
  /\ \A i, j \in 1..Len(instances) : i # j => instances[i] # instances[j]

\* A list published by a Reload is active, one of its probes has run, and
\* the loop of an instance of the list before it has returned.
C10_Witness ==
  /\ \E i \in 1..Len(instances) :
       instances[i][1] > 0 /\ ti[instances[i]].run = "select"
  /\ \E id \in InstIds : ti[id].run = "returned"

\* C11: in a list published from a config that Load and Validate accept,
\* no two instances have the same metric label set.
C11_LabelSetsDistinct ==
  \A c \in Callers :
    (ini[c].pc = "ok" /\ Validate(ini[c].cfg))
      => \A i, j \in 1..Len(ini[c].built) :
           i # j => ti[ini[c].built[i]].label # ti[ini[c].built[j]].label

\* The Check of instance id returns in this step.
CheckReturnsNow(id) == ti[id].run = "check" /\ ti'[id].run = "select"

\* The value of a series, 0 when the vector has none for the labels.
SeriesValue(vec, l) == IF l \in DOMAIN vec THEN vec[l] ELSE 0

\* C12: a Check that obtains an HTTP response stores up = true, and sets
\* xray_tunnel_up to 1, iff the status is 200, 301, 302 or 307; for every
\* other status it stores false and 0; in both cases it sets
\* xray_tunnel_http_status to the status.
C12_StatusClassification ==
  [][\A id \in InstIds :
       (CheckReturnsNow(id) /\ ClientGet(ti'[id].last).kind = "response")
         => LET status == ClientGet(ti'[id].last).status
                l == ti[id].label
            IN /\ ti'[id].Up = (status \in {200, 301, 302, 307})
               /\ m'.TunnelUp[l] = IF status \in {200, 301, 302, 307}
                                    THEN 1 ELSE 0
               /\ m'.TunnelHTTPStatus[l] = status]_vars

\* One probe was answered 307 and is up, another 503 and is down.
C12_Witness ==
  /\ \E id \in InstIds :
       /\ ti[id].last = Response(307)
       /\ ti[id].Up
       /\ m.TunnelHTTPStatus[ti[id].label] = 307
  /\ \E id \in InstIds : ti[id].last = Response(503) /\ ~ti[id].Up

\* C13: a probe whose check URL answers a redirect that names a target
\* sends no request to the target, is up, and has the redirect status in
\* xray_tunnel_http_status.
C13_RedirectNotFollowed ==
  \A id \in InstIds :
    ti[id].last.kind = "redirect"
      => /\ Requests(ti[id].last) <= 1
         /\ ti[id].Up
         /\ m.TunnelHTTPStatus[ti[id].label] = ti[id].last.status

\* C18: a Check that fails (SOCKS port unreachable, request error, bad
\* status) stores up = false, sets xray_tunnel_up to 0, adds exactly one
\* to check_total{failure} and nothing to check_total{success}, and
\* returns to the loop, the manager untouched; it writes no
\* xray_tunnel_http_status unless it got a response, and never the
\* latency or the last-success series.
C18_FailingProbe ==
  [][\A id \in InstIds :
       (CheckReturnsNow(id) /\ ~CheckUp(ClientGet(ti'[id].last)))
         => LET l == ti[id].label
            IN /\ ~ti'[id].Up
               /\ m'.TunnelUp[l] = 0
               /\ SeriesValue(m'.TunnelCheckTotal, CheckLabels(l, "failure"))
                    = SeriesValue(m.TunnelCheckTotal,
                                  CheckLabels(l, "failure")) + 1
               /\ [x \in DOMAIN m'.TunnelCheckTotal \ {CheckLabels(l, "failure")}
                     |-> m'.TunnelCheckTotal[x]]
                    = [x \in DOMAIN m.TunnelCheckTotal \ {CheckLabels(l, "failure")}
                         |-> m.TunnelCheckTotal[x]]
               /\ ClientGet(ti'[id].last).kind # "response"
                    => m'.TunnelHTTPStatus = m.TunnelHTTPStatus
               /\ m'.TunnelLatency = m.TunnelLatency
               /\ m'.TunnelLastSuccess = m.TunnelLastSuccess
               /\ instances' = instances
               /\ mainpc' = mainpc]_vars

\* A probe has failed at the SOCKS port after a probe of the same label
\* set had succeeded: the series of the success are still there.
C18_Witness ==
  \E id \in InstIds :
    /\ ti[id].last = SocksUnreachable
    /\ m.TunnelUp[ti[id].label] = 0
    /\ ti[id].label \in DOMAIN m.TunnelLatency
    /\ ti[id].label \in DOMAIN m.TunnelHTTPStatus

\* The check_total counters of a label set, success plus failure.
CheckTotal(mm, l) ==
  SeriesValue(mm.TunnelCheckTotal, CheckLabels(l, "success"))
    + SeriesValue(mm.TunnelCheckTotal, CheckLabels(l, "failure"))

\* No other instance built since the start carries the label set of id.
SoleCarrier(tis, id) ==
  \A other \in InstIds :
    (other # id /\ tis[other].built) => tis[other].label # tis[id].label

\* C14 as stated: for every instance of the active list with no probe in
\* flight, check_total{success} + check_total{failure} of its label set
\* equals the number of probes the instance has fired.
C14_CountersEqualProbesFired ==
  \A i \in 1..Len(instances) :
    ti[instances[i]].run # "check"
      => CheckTotal(m, ti[instances[i]].label) = ti[instances[i]].fired

\* C14 amended: every Check that returns adds exactly 1 to exactly one of
\* check_total{success} and check_total{failure} of its label set and
\* leaves every other counter alone; and for an instance of the active
\* list whose label set no other instance has carried, with no probe in
\* flight, the two counters add up to the probes the instance has fired.
C14_CountersCountChecks ==
  [][/\ \A id \in InstIds :
          CheckReturnsNow(id)
            => \E res \in {"success", "failure"} :
                 LET k == CheckLabels(ti[id].label, res)
                 IN /\ SeriesValue(m'.TunnelCheckTotal, k)
                         = SeriesValue(m.TunnelCheckTotal, k) + 1
                    /\ [x \in DOMAIN m'.TunnelCheckTotal \ {k}
                          |-> m'.TunnelCheckTotal[x]]
                         = [x \in DOMAIN m.TunnelCheckTotal \ {k}
                              |-> m.TunnelCheckTotal[x]]
     /\ \A i \in 1..Len(instances') :
          (ti'[instances'[i]].run # "check" /\ SoleCarrier(ti', instances'[i]))
            => CheckTotal(m', ti'[instances'[i]].label)
                 = ti'[instances'[i]].fired]_vars

\* An active instance, the only carrier of its label set, has fired two
\* probes, one counted as a success and one as a failure.
C14_Witness ==
  \E i \in 1..Len(instances) :
    LET id == instances[i]
    IN /\ SoleCarrier(ti, id)
       /\ ti[id].run = "select"
       /\ ti[id].fired = 2
       /\ SeriesValue(m.TunnelCheckTotal, CheckLabels(ti[id].label, "success")) = 1
       /\ SeriesValue(m.TunnelCheckTotal, CheckLabels(ti[id].label, "failure")) = 1

\* The series of label set l, one value per family (0: no series).
SeriesOf(mm, l) ==
  <<SeriesValue(mm.TunnelUp, l), l \in DOMAIN mm.TunnelUp,
    SeriesValue(mm.TunnelLatency, l), l \in DOMAIN mm.TunnelLatency,
    SeriesValue(mm.TunnelLastSuccess, l), l \in DOMAIN mm.TunnelLastSuccess,
    SeriesValue(mm.TunnelHTTPStatus, l), l \in DOMAIN mm.TunnelHTTPStatus,
    SeriesValue(mm.TunnelCheckTotal, CheckLabels(l, "success")),
    CheckLabels(l, "success") \in DOMAIN mm.TunnelCheckTotal,
    SeriesValue(mm.TunnelCheckTotal, CheckLabels(l, "failure")),
    CheckLabels(l, "failure") \in DOMAIN mm.TunnelCheckTotal>>

\* C15: the step in which a Reload returns nil deletes and resets no
\* series of a label set that is both in the list the Reload replaced
\* and in the list its Initialize published.
C15_KeptLabelSetsKeepSeries ==
  [][\A r \in 1..MaxReloads :
       (ReloadReturns(r) /\ rl'[r].err = "nil")
         => \A ls \in Range(rl[r].oldLabelSets)
                        \cap Range(LabelSetsOf(ini[r].built)) :
              SeriesOf(m', ls) = SeriesOf(m, ls)]_vars

\* C16: a Reload with the config the replaced list was built from returns
\* with the same label sets in the active list and, in the step in which
\* it returns, every series as it was.
C16_IdenticalReloadChangesNothing ==
  [][\A r \in 1..MaxReloads :
       (/\ ReloadReturns(r)
        /\ rl'[r].err = "nil"
        /\ rl[r].oldLabelSets # <<>>
        /\ rl[r].oldLabelSets = LabelSetsOf(ini[r].built)
        /\ \E c \in Callers \ {r} : ini[c].pc = "ok" /\ ini[c].cfg = ini[r].cfg)
         => /\ m' = m
            /\ LabelSetsOf(instances') = rl[r].oldLabelSets]_vars

\* C17: every xray_tunnel_up series is 0 or 1, and when a probe of a
\* label set completes, it being then the most recently completed probe
\* of the label set, xray_tunnel_up of the label set is 1 iff the probe
\* succeeded.
C17_UpGaugeIsLastProbe ==
  [][/\ \A l \in DOMAIN m'.TunnelUp : m'.TunnelUp[l] \in {0, 1}
     /\ \A id \in InstIds :
          (ti[id].run = "recorded" /\ ti'[id].run = "select")
            => m'.TunnelUp[ti[id].label]
                 = IF CheckUp(ClientGet(ti[id].last)) THEN 1 ELSE 0]_vars

\* C19: a Run that starts is at once in its first probe, every tick it
\* takes starts exactly one more probe, and no probe starts otherwise.
C19_ProbeAtStartAndPerTick ==
  [][\A id \in InstIds :
       /\ (ti[id].run = "none" /\ ti'[id].run # "none")
            => (ti'[id].run = "check" /\ ti'[id].fired = 1)
       /\ (ti[id].run = "select" /\ ti'[id].run = "check")
            => ti'[id].fired = ti[id].fired + 1
       /\ ti'[id].fired # ti[id].fired
            => \/ ti[id].run = "none" /\ ti'[id].run = "check"
               \/ ti[id].run = "select" /\ ti'[id].run = "check"
       /\ ti[id].run = "check" => ti'[id].run \in {"check", "select"}]_vars

\* A Run has completed its first probe, taken a tick, and is in its
\* second probe.
C19_Witness ==
  \E id \in InstIds :
    /\ ti[id].run = "check"
    /\ ti[id].fired = 2
    /\ ti[id].last # NoOutcome

\* C20: once its context is cancelled, a Run starts no probe.
C20_NoProbeAfterCancel ==
  [][\A id \in InstIds :
       ti[id].ctx = "done" => ti'[id].fired = ti[id].fired]_vars

\* C21: an instance starts a probe only when it has none in flight (a
\* probe that lasts is waited for, the next one starts after it), and
\* while the probe of one instance is in flight every other instance at
\* its select can take its tick and every other instance in a probe can
\* get its answer.
C21_OneProbePerInstance ==
  [][/\ \A id \in InstIds :
          ti'[id].fired > ti[id].fired => ti[id].run # "check"
     /\ \A i, j \in InstIds :
          (i # j /\ ti[i].run = "check" /\ Running /\ checks < MaxProbes)
            => /\ ti[j].run = "select" => ENABLED ProbeTick(j)
               /\ ti[j].run = "check" => ENABLED ProbeEnd(j)]_vars

\* The first probe of one instance is still in flight while another
\* instance of the list has completed its first and started its second.
C21_Witness ==
  \E i, j \in InstIds :
    /\ i # j
    /\ i[1] = j[1]
    /\ ti[i].run = "check"
    /\ ti[i].fired = 1
    /\ ti[j].run = "check"
    /\ ti[j].fired = 2

\* The watcher's loop takes the first waiting event in this step.
HandlesEvent == w.events # <<>> /\ w'.events = Tail(w.events)

\* e is a write, create or chmod event for the config file name.
ChangeEvent(e) ==
  /\ e.name = "config"
  /\ ~(Has(e, "Remove") \/ Has(e, "Rename"))
  /\ Has(e, "Write") \/ Has(e, "Create") \/ Has(e, "Chmod")

\* C22: a write, create or chmod event for the config file name calls no
\* Reload; it leaves exactly one debounce timer running, whatever ran
\* before, so that the events of a burst share one timer and one Reload;
\* Reload is called only when that timer fires, once per firing; and an
\* event for another name starts no timer and calls no Reload.
C22_DebouncedReload ==
  [][/\ (HandlesEvent /\ ChangeEvent(Head(w.events)))
          => (w'.armed = 1 /\ w'.reloads = w.reloads)
     /\ (HandlesEvent /\ Head(w.events).name # "config")
          => (w'.armed = w.armed /\ w'.reloads = w.reloads)
     /\ w'.reloads # w.reloads
          => /\ w'.reloads = w.reloads + 1
             /\ w.armed = 1
             /\ w'.armed = 0
             /\ w'.events = w.events
     /\ w'.armed <= 1]_vars

\* One write of the watched file has delivered two events (directory and
\* file-level watch); both are handled and Reload was called once.
C22_Witness ==
  /\ w.fsops = 1
  /\ w.exists
  /\ w.registered = 1
  /\ w.events = <<>>
  /\ w.armed = 0
  /\ w.reloads = 1

\* C23: when the config file is removed (or renamed away) and then created
\* anew, the events of the removal start no debounce timer and call no
\* Reload, and the events of the creation, handled as one burst, make
\* exactly one Reload call: never two, and one once the timer has fired.
C23_RecreateReloadsOnce ==
  /\ w.created = 0 => (w.armed = 0 /\ w.reloads = 0)
  /\ w.reloads + w.armed <= 1
  /\ (w.created = 1 /\ w.events = <<>> /\ w.armed = 0) => w.reloads = 1

\* The file was removed and created anew, every event is handled, the
\* timer has fired, Reload was called once and the file is watched again.
C23_Witness ==
  /\ w.created = 1
  /\ w.events = <<>>
  /\ w.armed = 0
  /\ w.reloads = 1
  /\ w.fileWatchActive
  /\ w.pollWait = 0
  /\ w.pollAdd = 0

\* e is a remove or rename event for the config file name.
RemoveEvent(e) ==
  e.name = "config" /\ (Has(e, "Remove") \/ Has(e, "Rename"))

\* C24: the watcher never holds more than one file-level watch; when it
\* handles a remove or rename event for the config file it holds none,
\* its flag is clear and one more rewatch goroutine polls; and whenever
\* the loop runs with a live context, the file there and not watched, the
\* file gets watched again (or is removed again, or the context ends).
C24_FileWatchReattached ==
  /\ [](w.registered <= 1)
  /\ [][(HandlesEvent /\ RemoveEvent(Head(w.events)))
          => /\ ~w'.fileWatchActive
             /\ w'.registered = 0
             /\ w'.pollWait = w.pollWait + 1]_vars
  /\ (w.pc = "loop" /\ w.ctx = "live" /\ w.exists /\ ~w.fileWatchActive)
       ~> (w.fileWatchActive \/ ~w.exists \/ w.ctx = "done")

\* The file was removed, its watch detached, and created anew; a rewatch
\* goroutine has found it and its one file-level watch is attached again.
C24_Witness ==
  /\ w.pc = "loop"
  /\ w.ctx = "live"
  /\ w.created = 1
  /\ w.exists
  /\ w.fileWatchActive
  /\ w.registered = 1

\* C25: DialContext returns a stream only after a method reply 05 00 and
\* a CONNECT reply with REP = 0; after any other method reply it returns
\* an error and has written the greeting only, no CONNECT request; after
\* a reply with REP # 0 it returns an error that carries REP.
C25_StreamOnlyAfterBothReplies ==
  /\ d.result = "stream"
       => (d.method = <<5, 0>> /\ d.resp # <<>> /\ d.resp[2] = 0)
  /\ (d.method # <<>> /\ d.method # <<5, 0>>)
       => (d.result = "error" /\ d.sent = <<"greeting">>)
  /\ (d.resp # <<>> /\ d.resp[2] # 0)
       => (d.result = "error" /\ d.err = ConnectErr(d.resp[2]))

\* The proxy has accepted the method and refused the CONNECT with REP 5.
C25_Witness ==
  /\ d.method = <<5, 0>>
  /\ d.sent = <<"greeting", "connect">>
  /\ d.resp # <<>>
  /\ d.resp[2] = 5
  /\ d.err = ConnectErr(5)

\* C26: after a CONNECT reply with REP = 0, DialContext returns a stream
\* only for ATYP 1, 3 or 4, having read 6, 1 + len + 2 or 18 bytes after
\* the header, and returns a protocol error for any other ATYP.
C26_UnknownAtypFails ==
  (d.pc = "returned" /\ d.resp # <<>> /\ d.resp[2] = 0)
    => /\ d.resp[4] \notin {1, 3, 4}
            => (d.result = "error" /\ d.err.kind = "protocol")
       /\ (d.result = "stream" /\ d.resp[4] = 1) => d.drained = 6
       /\ (d.result = "stream" /\ d.resp[4] = 3)
            => d.drained = 1 + d.lenByte + 2
       /\ (d.result = "stream" /\ d.resp[4] = 4) => d.drained = 18

\* C27: a DialContext that returns an error has closed the connection it
\* had opened (the failed dial opened none), and a connection is open
\* after the return only when it is the stream returned.
C27_ErrorPathsClose ==
  d.pc = "returned"
    => /\ d.result = "error"
            => d.conn = IF d.err.kind = "dial" THEN "none" ELSE "closed"
       /\ d.conn = "open" => d.result = "stream"

\* The read of the bound address has failed after both requests were
\* written, and the connection is closed.
C27_Witness ==
  /\ d.pc = "returned"
  /\ d.resp # <<>>
  /\ d.resp[2] = 0
  /\ d.err = DialErr("read")
  /\ d.conn = "closed"

\* C28: xray_tunnel_init_errors_total counts the failed calls of
\* InitInstance, one each and none for a call that returned an instance,
\* and a failed call leaves no provider that runs.
C28_InitErrorsCounted ==
  /\ m.TunnelInitErrors
       = Cardinality({c \in Callers :
                        ini[c].pc = "instance" /\ ini[c].built = <<>>})
  /\ \A c \in Callers :
       (ini[c].pc = "instance" /\ ini[c].built = <<>>)
         => ti[<<c, 1>>].XrayInstance \in {"nil", "closed"}

\* C29: in the Config that Load returns every tunnel has as check_url,
\* check_interval and check_timeout its own value if not empty, else the
\* value of the defaults block if not empty, else https://www.google.com,
\* 30s and 30s; socks_base_port is 1080 when the file leaves it out and
\* the file's value otherwise.
C29_LoadResolution ==
  (call.fn = "Load" /\ call.ret.ok)
    => LET f == call.arg
           c == call.ret.cfg
           C29_Expected(own, dflt, builtin) ==
             CASE own # "" -> own
               [] own = "" /\ dflt # "" -> dflt
               [] OTHER -> builtin
       IN /\ Len(c.tunnels) = Len(f.tunnels)
          /\ \A i \in 1..Len(f.tunnels) :
               /\ c.tunnels[i].check_url
                    = C29_Expected(f.tunnels[i].check_url,
                                   f.defaults.check_url,
                                   "https://www.google.com")
               /\ c.tunnels[i].check_interval
                    = C29_Expected(f.tunnels[i].check_interval,
                                   f.defaults.check_interval, "30s")
               /\ c.tunnels[i].check_timeout
                    = C29_Expected(f.tunnels[i].check_timeout,
                                   f.defaults.check_timeout, "30s")
          /\ c.socks_base_port
               = IF f.socks_base_port = 0 THEN 1080 ELSE f.socks_base_port

\* Load has returned a Config whose first tunnel has its own check_url,
\* the check_interval of the defaults block and the built-in timeout,
\* and whose socks_base_port is the built-in.
C29_Witness ==
  /\ call.fn = "Load"
  /\ call.ret.ok
  /\ call.arg.tunnels[1].check_interval = ""
  /\ call.arg.defaults.check_url # ""
  /\ call.arg.socks_base_port = 0
  /\ call.ret.cfg.tunnels[1].check_url = "https://own.example.com"
  /\ call.ret.cfg.tunnels[1].check_interval = "0s"
  /\ call.ret.cfg.tunnels[1].check_timeout = "30s"
  /\ call.ret.cfg.socks_base_port = 1080

\* C30: ParseVLESSURL returns a config only for a URL that begins with
\* vless://, has a user and a host that are not empty, and a port that is
\* an integer in 1..65535.
C30_ParseAcceptsOnlyValid ==
  (call.fn = "ParseVLESSURL" /\ call.ret.ok)
    => /\ call.arg.scheme = "vless"
       /\ call.arg.uuid # ""
       /\ call.arg.host # ""
       /\ call.arg.port \in DigitStrings
       /\ DigitValue(call.arg.port) \in 1..65535

\* What a provider config holds of the mapping {uuid, host, port, type,
\* security, sni, fp, pbk, sid, spx}; "absent" for a value it does not
\* hold.
ProviderMapping(cfg) ==
  LET out == cfg.outbounds[1]
      vnext == out.settings.vnext[1]
      ss == out.streamSettings
      sec == IF "realitySettings" \in DOMAIN ss THEN ss.realitySettings
             ELSE IF "tlsSettings" \in DOMAIN ss THEN ss.tlsSettings
             ELSE <<>>
      Get(f, k) == IF k \in DOMAIN f THEN f[k] ELSE "absent"
  IN [uuid |-> vnext.users[1].id, host |-> vnext.address,
      port |-> vnext.port, type |-> ss.network,
      security |-> Get(ss, "security"), sni |-> Get(sec, "serverName"),
      fp |-> Get(sec, "fingerprint"), pbk |-> Get(sec, "publicKey"),
      sid |-> Get(sec, "shortId"), spx |-> Get(sec, "spiderX")]

\* The same mapping as URL u gives it.
URLMapping(u) ==
  [uuid |-> u.uuid, host |-> u.host, port |-> DigitValue(u.port),
   type |-> u.type, security |-> u.security, sni |-> u.sni, fp |-> u.fp,
   pbk |-> u.pbk, sid |-> u.sid, spx |-> u.spx]

\* A call of CreateXrayConfig on a URL whose recognized keys all have a
\* value has returned.
BuiltFromFullURL ==
  /\ call.fn = "CreateXrayConfig"
  /\ \A k \in {"type", "security", "sni", "fp", "pbk", "sid", "spx"} :
       call.arg[k] # ""

\* C31 as stated: the provider config built from a URL with all recognized
\* keys holds the URL's uuid, host, port, type, security, sni, fp, pbk, sid
\* and spx, whatever the security value.
C31_ConfigHoldsAllValues ==
  BuiltFromFullURL => ProviderMapping(call.ret) = URLMapping(call.arg)

\* C31: the provider config built from a URL with all recognized keys
\* holds the URL's uuid, host, port and type for every security value; for
\* security reality it also holds security, sni, fp, pbk, sid and spx; for
\* security tls it holds security, sni and fp and not pbk, sid or spx; for
\* any other security value it holds none of these six.
C31_ConfigHoldsValuesOfSecurity ==
  BuiltFromFullURL
    => LET got == ProviderMapping(call.ret)
           url == URLMapping(call.arg)
           Same(keys) == \A k \in keys : got[k] = url[k]
           Absent(keys) == \A k \in keys : got[k] = "absent"
       IN /\ Same({"uuid", "host", "port", "type"})
          /\ call.arg.security = "reality"
               => Same({"security", "sni", "fp", "pbk", "sid", "spx"})
          /\ call.arg.security = "tls"
               => /\ Same({"security", "sni", "fp"})
                  /\ Absent({"pbk", "sid", "spx"})
          /\ call.arg.security \notin {"reality", "tls"}
               => Absent({"security", "sni", "fp", "pbk", "sid", "spx"})

\* A config has been built from a tls URL that carries every key, over ws
\* and for port 8443: it holds the URL's sni and fingerprint and no public
\* key.
C31_Witness ==
  /\ BuiltFromFullURL
  /\ call.arg.security = "tls"
  /\ call.arg.type = "ws"
  /\ ProviderMapping(call.ret).sni = "sni-a"
  /\ ProviderMapping(call.ret).port = 8443
  /\ ProviderMapping(call.ret).pbk = "absent"

\* The instances whose probe loop runs under a context that is not
\* cancelled, or whose provider is open.
RunningInstances ==
  {id \in InstIds :
     ti[id].built /\ (ti[id].ctx = "live" \/ ti[id].XrayInstance = "open")}

\* C32: whenever main has returned from its Initialize and no Reload is in
\* progress (StopAll is one step), the instances with a running probe loop
\* or an open provider are the instances of the active list.
C32_RunningInstancesAreTheList ==
  (mainpc \in {"serving", "exited"} /\ \A r \in Reloads : ~ReloadInProgress(r))
    => RunningInstances = Range(instances)

\* C33: once the Reload started last has returned nil, no Reload is in
\* progress and the probe loop of every stopped instance has returned,
\* every label set with a series in a per-tunnel family is the label set
\* of an instance of the active list.
C33_SeriesBelongToTheList ==
  (/\ \E r \in Reloads :
        /\ rl[r].pc = "returned" /\ rl[r].err = "nil"
        /\ \A q \in Reloads : q > r => rl[q].pc = "idle"
   /\ \A r \in Reloads : ~ReloadInProgress(r)
   /\ \A id \in InstIds :
        (ti[id].built /\ ti[id].ctx # "live")
          => ti[id].run \in {"none", "returned"})
    => \A id \in InstIds :
         (ti[id].built /\ HasSeries(m, ti[id].label))
           => \E i \in 1..Len(instances) :
                ti[instances[i]].label = ti[id].label

\* C34: of a Reload's old instances none has its provider closed while its
\* context is not cancelled, and when the provider of an instance of the
\* Reload's new set has been started the provider of every old instance is
\* closed.
C34_CancelThenCloseThenStart ==
  \A r \in Reloads :
    /\ \A i \in 1..Len(rl[r].oldInstances) :
         ti[rl[r].oldInstances[i]].XrayInstance = "closed"
           => ti[rl[r].oldInstances[i]].ctx = "done"
    /\ (\E id \in InstIds : id[1] = r /\ ti[id].built)
         => \A i \in 1..Len(rl[r].oldInstances) :
              ti[rl[r].oldInstances[i]].XrayInstance = "closed"

\* A Reload that took a list of two instances has stopped the first and
\* cancelled the second, whose provider is still open.
C34_Witness ==
  \E r \in Reloads :
    /\ rl[r].pc = "stop"
    /\ Len(rl[r].oldInstances) = 2
    /\ Stopped(ti, rl[r].oldInstances[1])
    /\ ti[rl[r].oldInstances[2]].ctx = "done"
    /\ ti[rl[r].oldInstances[2]].XrayInstance = "open"

\* C35: while a Reload that passed validation is between clearing the old
\* list and the publication of its new list, a /health request is answered
\* 503 no tunnels configured; when its Initialize has published, the
\* answer is the one the up flags of its new instances give.
C35_HealthDuringReload ==
  \A r \in Reloads :
    /\ (mainpc = "serving" /\ rl[r].pc = "init"
          /\ ini[r].pc \in {"build", "publish"})
         => HealthResponse(instances, ti) = "503 no tunnels configured"
    /\ (mainpc = "serving" /\ rl[r].pc = "init" /\ ini[r].pc = "ok")
         => HealthResponse(instances, ti) = HealthResponse(ini[r].built, ti)

\* C36: CleanupRemoved(old, new) deletes the six series of exactly the
\* label sets that are in old and equal, as 4-tuples, to no label set of
\* new, and leaves every other series as it was; with old empty it deletes
\* nothing.
C36_CleanupDeletesExactlyRemoved ==
  call.fn = "CleanupRemoved"
    => LET before == call.arg[1]
           after == call.ret
           removed == Range(call.arg[2]) \ Range(call.arg[3])
           Restricted(vec, gone) == [x \in (DOMAIN vec) \ gone |-> vec[x]]
       IN /\ after.TunnelUp = Restricted(before.TunnelUp, removed)
          /\ after.TunnelLatency = Restricted(before.TunnelLatency, removed)
          /\ after.TunnelLastSuccess =
               Restricted(before.TunnelLastSuccess, removed)
          /\ after.TunnelHTTPStatus =
               Restricted(before.TunnelHTTPStatus, removed)
          /\ after.TunnelCheckTotal =
               Restricted(before.TunnelCheckTotal,
                          removed \X {"success", "failure"})
          /\ Len(call.arg[2]) = 0 => after = before

\* C37: in a config that Load and Validate accept, the check_interval of
\* every tunnel is a duration greater than zero.
C37_AcceptedIntervalsArePositive ==
  (call.fn = "Validate" /\ call.ret.loaded /\ call.ret.valid)
    => \A i \in 1..Len(call.ret.cfg.tunnels) :
         ParseDuration(call.ret.cfg.tunnels[i].check_interval).ms > 0

\* C38: Validate accepts a loaded config exactly when, for each of its
\* tunnels, ParseVLESSURL and the parses of check_interval and
\* check_timeout in InitInstance succeed.
C38_ValidateIsInitInstanceParses ==
  (call.fn = "Validate" /\ call.ret.loaded)
    => (call.ret.valid
          <=> \A i \in 1..Len(call.ret.parses) : call.ret.parses[i])

\* Validate has refused a config of two tunnels for its second tunnel,
\* whose port is no number and on which InitInstance would fail.
C38_Witness ==
  /\ call.fn = "Validate"
  /\ call.ret.loaded
  /\ ~call.ret.valid
  /\ call.ret.parses = <<TRUE, FALSE>>
  /\ call.arg.tunnels[2].url.port = "invalid"

\* C39: for every instance of the active list, whenever no Check of an
\* instance with its label set is in flight, its up flag is set if and
\* only if xray_tunnel_up of its label set is 1; so /health answers 200
\* exactly when xray_tunnel_up is 1 for the label set of some instance of
\* the list.
C39_UpFlagIsUpGauge ==
  \A i \in 1..Len(instances) :
    (\A id \in InstIds :
       (ti[id].built /\ ti[id].label = ti[instances[i]].label)
         => ti[id].run # "check")
      => (ti[instances[i]].Up
            <=> SeriesValue(m.TunnelUp, ti[instances[i]].label) = 1)

\* C40: the CONNECT request DialContext has sent is 05 01 00 03, a length
\* byte equal to the number of host bytes that follow it, the bytes of the
\* destination host, and two bytes that decode, big-endian, to the
\* destination port.
C40_ConnectRequestBytes ==
  d.req # <<>>
    => /\ d.req.head = <<5, 1, 0, 3>>
       /\ d.req.host = d.addr.host
       /\ d.req.len = Len(d.req.host)
       /\ d.req.port[1] * 256 + d.req.port[2] = DigitValue(d.addr.port)

====
